---- MODULE Spec2Model ----
(***************************************************************************)
(* A model of mini-vue: the dependency graph engine (effect / track /      *)
(* trigger), the reactive proxy and boxed reference, the derived value,    *)
(* the job scheduler and the keyed children diff of the renderer.          *)
(*                                                                         *)
(* JavaScript runs to completion: one action is one synchronous piece of   *)
(* code (a statement of the application at top level, or one microtask).   *)
(* The nested calls a handler makes (set trap -> trigger -> scheduler ->   *)
(* queueJob -> flushJob, or trigger -> effectFn -> fn -> set trap ...) are *)
(* operators over a record s of the whole reactive state.                  *)
(***************************************************************************)
EXTENDS Integers, Sequences, FiniteSets, TLC

(* ------------------------------ bounds -------------------------------- *)
\* triggers counted per subscriber while one flush is pending
MaxTrig == 2
\* microtasks of the application (Promise.resolve().then(write)) in flight
MaxMicro == 1
\* largest array length of the reactive array
MaxLen == 2
\* the keys of keyed children are 1 .. NumKeys
NumKeys == 5
\* longest list of children
MaxChildren == 4
MaxUnkeyed == 3
\* longest array given to getSequence on its own, and its largest value
MaxSeqLen == 4
MaxSeqVal == 3
\* callbacks given to nextTick that have not run yet
MaxTicks == 1
\* the nested calls of effect functions the engine's call stack holds; the
\* next one throws a RangeError
MaxDepth == 4

(* ------------------------------ values -------------------------------- *)
\* JavaScript values are strings here: "undefined", "NaN", ordinary strings, and
\* a number n (an array's length) as its decimal text.
Num(n) == ToString(n)
ObjVals == {"x", "y"}
ArrVals == {"x", "undefined", "NaN"}
BoxVals == {"x", "y", "NaN"}
IsNaN(v) == v = "NaN"
\* a === b
StrictEq(a, b) == ~IsNaN(a) /\ ~IsNaN(b) /\ a = b
\* a == b, used only as newVal == newVal
LooseEq(a, b) == StrictEq(a, b)

hasChanged_NoIdentityTest(oldVal, newVal) ==
    StrictEq(oldVal, oldVal) /\ LooseEq(newVal, newVal)
hasChanged(oldVal, newVal) ==
    ~StrictEq(oldVal, newVal) /\ StrictEq(oldVal, oldVal) /\ LooseEq(newVal, newVal)

(* --------------------------- the subscribers -------------------------- *)
NoEffect == "none"
\* r1, r2: render-like effects whose scheduler is queueJob
MainEffects == {"r1", "r2"}
\* sv: a plain effect, qv: a queueJob effect, both over the array and the box
ValEffects == {"sv", "qv"}
\* cmp: the lazy effect a derived value owns; crd: a plain effect reading it
CmpEffects == {"cmp", "crd", "qrd"}
\* par: the render effect of a parent component; upd: the render effect
\* (instance.update) of the child component the parent renders
CompEffects == {"par", "upd"}
\* the lazy effects of watchers: wch of watch(() => state.a, cb, options),
\* wts of the watch of watch.ts with the same arguments, wef of watchEffect(cb)
WatchEffects == {"wch", "wts", "wef"}
\* plain effects: out creates the effect inn while it runs, between two reads
\* of its own; self writes the key it reads
NestEffects == {"out", "inn", "self"}
Effects == MainEffects \cup ValEffects \cup CmpEffects \cup CompEffects
               \cup WatchEffects \cup NestEffects

\* Component.props of the child: the declared prop names
Declared == {"p", "q", "m"}
\* the other keys the parent passes to the child
AttrKeys == {"id"}
\* the keys of the child vnode's props, in the order the parent writes them
VnodeKeys == <<"p", "m", "q", "id">>
\* the keys of the object the child's setup returns: n a boxed reference, m a
\* plain value
SetupKeys == {"n", "m"}
\* the keys the child's render function reads from its context, in order
CtxKeys == <<"n", "m", "p", "q", "id", "zz">>
\* a key that an object does not have
Absent == "absent"

ObjKeys == {"flag", "a", "b"}
IdxKey(i) == ToString(i)
ArrKeys == {IdxKey(i) : i \in 0 .. MaxLen - 1} \cup {"length"}
\* the array index a key names
index(key) == CHOOSE i \in 0 .. MaxLen - 1 : IdxKey(i) = key
\* the number a numeric value holds
numberOf(v) == CHOOSE n \in 0 .. MaxLen : Num(n) = v
DepKeys == ({"obj"} \X ObjKeys) \cup ({"arr"} \X ArrKeys)
             \cup {<<"box", "value">>, <<"cmp", "value">>}
             \cup ({"props"} \X Declared)

\* effectFn.options.scheduler
schedulerOf(e) ==
    CASE e \in {"r1", "r2", "qv", "qrd", "par", "upd"} -> "queueJob"
      [] e = "cmp" -> "computed"
      [] e \in {"wch", "wts"} -> "watch"
      [] e = "wef" -> "watchEffect"
      [] OTHER -> "none"

VARIABLES
    \* reactive targets
    store,      \* the raw object behind the proxy: ObjKeys -> value
    arr,        \* the raw array behind the array proxy
    box,        \* RefImpl.__value
    cmpValue,   \* ComputedImpl.__value
    dirty,      \* ComputedImpl.dirty
    \* effect.ts
    created,    \* the effects that exist
    bucket,     \* targetMap: dep key -> Set<EffectFn>, in insertion order
    deps,       \* effectFn.deps: the dep sets (named by their key) it lists
    activeEffect,
    effectStack,
    \* scheduler.ts
    jobQueue,   \* Set<EffectFn>, in insertion order
    isFlushing,
    currentFlushPromise,
    reactions,  \* the callbacks chained to currentFlushPromise by nextTick
    \* the engine's microtask queue and whether it is being drained
    microtasks,
    draining,
    \* component.ts: the instance of the child component
    inst,
    \* watch.ts, watchEffect.ts: the closure variables of each watcher
    wat,
    \* history, read by the properties only
    hist

VARIABLES
    \* the renderer: one keyed children diff in one container
    oldChildren,  \* the keys of the previous children, all mounted
    newChildren,  \* the keys of the next children
    host,         \* the container's child nodes, in order
    el,           \* newChildren[k].el, by index from 0
    ops,          \* history: the host operations done, in order
    phase,        \* "mounted" before the diff, then "patched", or "threw"
    textContent,  \* el.textContent of the host nodes of the unkeyed diff
    preVnode,     \* the previous vnode given to patch, less its array children
    newVnode,     \* the next vnode given to patch, less its array children
    diff,         \* history: the children diff patchChildren chose
    seqInput,     \* the array given to getSequence
    seqResult,    \* the array getSequence returned
    prevHost      \* history: the container's child nodes before the unmount

dvars == <<oldChildren, newChildren, host, el, ops, phase, textContent,
           preVnode, newVnode, diff, seqInput, seqResult, prevHost>>

rvars == <<store, arr, box, cmpValue, dirty, created, bucket, deps, activeEffect,
           effectStack, jobQueue, isFlushing, currentFlushPromise, reactions,
           microtasks,
           draining, inst, wat, hist>>

(* --------------------------- small helpers ---------------------------- *)
InSeq(x, q) == \E i \in 1 .. Len(q) : q[i] = x
Range(q) == {q[i] : i \in 1 .. Len(q)}
SetAdd(q, x) == IF InSeq(x, q) THEN q ELSE Append(q, x)
SetDelete(q, x) == SelectSeq(q, LAMBDA y : y # x)
Count(x, q) == Cardinality({i \in 1 .. Len(q) : q[i] = x})
Min(a, b) == IF a < b THEN a ELSE b

\* a vnode's props: key -> value, Absent for a key it does not have
NoProps == [k \in Range(VnodeKeys) |-> Absent]

\* no child component is mounted
NoInstance ==
    [ props |-> [k \in Declared |-> Absent],   \* instance.props
      attrs |-> [k \in AttrKeys |-> Absent],   \* instance.attrs
      ctx |-> "null",                          \* instance.ctx: "proxy" or "copy"
      copy |-> [k \in Range(CtxKeys) |-> Absent],  \* the plain object ctx is
      isReactive |-> FALSE,                    \* instance.props is the reactive proxy
      isMounted |-> FALSE,
      hasNext |-> FALSE,                       \* instance.next is not null
      next |-> NoProps,                        \* the props of instance.next
      vnode |-> NoProps ]                      \* the props of the instance's vnode

\* the closure of watch() / watchEffect() before the call
NoWatcher ==
    [ oldVal |-> "undefined", newVal |-> "undefined",
      cleanUp |-> FALSE,      \* cleanUp holds a function
      immediate |-> FALSE,    \* options.immediate
      post |-> FALSE ]        \* options.flush === 'post'

NoWrite == [target |-> "none", key |-> "none", same |-> FALSE, lenChanged |-> FALSE,
            lengthSubs |-> {}, watched |-> FALSE]
NoPass == [done |-> FALSE, preTrig |-> [e \in Effects |-> 0], atStart |-> <<>>,
           ran |-> <<>>, atEnd |-> <<>>]

\* the callbacks given to nextTick
TickIds == {Num(i) : i \in 1 .. MaxTicks}

\* no call of nextTick: at a call, at is "spawned" while the microtask that is
\* to call it waits and "called" after the call, pending is whether a flush
\* was pending then, and wait the queued callbacks the flush has not run yet
NoTick == [at |-> "free", pending |-> FALSE, wait |-> {}]

HistInit ==
    [ reads |-> [e \in Effects |-> {}],    \* keys read by e's run in progress / last run
      running |-> <<>>,                    \* the effect functions on the call stack
      threw |-> FALSE,                     \* this action ended with a thrown RangeError
      overflow |-> FALSE,                  \* a call has exceeded the call stack
      reentered |-> {},                    \* effects called while they were executing
      misTracked |-> {},                   \* reads tracked for another than the innermost executing effect
      staleHit |-> {},                     \* <<e, key>>: e notified on a key its last run did not read
      invoked |-> {},                      \* effects run or scheduled by lastWrite's triggers
      owed |-> {},                         \* queueJob(fn) called, fn not started since
      trig |-> [e \in Effects |-> 0],      \* triggers on e while the flush is pending
      pass |-> NoPass,                     \* the last flush pass
      order |-> <<>>,                      \* the callbacks of this flush, by their first queueJob call
      lastWrite |-> NoWrite,               \* this action's top-level write
      getterRuns |-> 0,                    \* getter runs during the read in progress
      depTrig |-> FALSE,                   \* a key cmp's last run read was triggered since its last read
      schedTrig |-> FALSE,                 \* cmp's scheduler was invoked since its last read
      everRead |-> FALSE,                  \* cmp.value has been read before
      readLog |-> {},                      \* this action's reads of cmp.value
      eager |-> FALSE,                     \* the getter has run outside a read of cmp.value
      inRead |-> FALSE,                    \* a read of cmp.value is in progress
      readSeen |-> FALSE,                  \* cmp.value was read since the scheduler call began
      valueTrig |-> 0,                     \* this action's calls of trigger(cmp, 'value')
      schedLog |-> {},                     \* this action's calls of cmp's scheduler
      renders |-> 0,                       \* this action's calls of the child's render
      propChanges |-> 0,                   \* declared props this action's updates changed
      ctxReads |-> {},                     \* this action's reads through the render context
      wlog |-> {},                         \* this action's invocations of watch callbacks
      inWatch |-> FALSE,                   \* a call of watch() is in progress
      wInvoked |-> [w \in WatchEffects |-> FALSE],     \* the callback was invoked before
      wPrevNew |-> [w \in WatchEffects |-> "undefined"], \* newValue of the invocation before
      wSubVal |-> [w \in WatchEffects |-> "undefined"],  \* the getter's value when subscribed
      wCleaned |-> [w \in WatchEffects |-> FALSE], \* the cleanup now registered was called
      wCleanedTwice |-> {},                \* watchers that called a cleanup a second time
      wefRead |-> {},                      \* keys the watchEffect callback's last run read
      wefRuns |-> 0,                       \* this action's runs of the watchEffect callback
      tick |-> [i \in TickIds |-> NoTick], \* the calls of nextTick whose callback has not run
      tickLog |-> {} ]                     \* this action's runs of nextTick callbacks

\* the whole state as one record, with the per-action history cleared
Cur ==
    [ store |-> store, arr |-> arr, box |-> box, cmpValue |-> cmpValue, dirty |-> dirty,
      created |-> created, bucket |-> bucket, deps |-> deps,
      activeEffect |-> activeEffect, effectStack |-> effectStack,
      jobQueue |-> jobQueue, isFlushing |-> isFlushing,
      currentFlushPromise |-> currentFlushPromise, reactions |-> reactions,
      microtasks |-> microtasks,
      inst |-> inst, wat |-> wat,
      ret |-> "undefined",   \* the value the last call returned
      hist |-> [hist EXCEPT !.staleHit = {}, !.invoked = {}, !.lastWrite = NoWrite,
                            !.threw = FALSE,
                            !.readLog = {}, !.valueTrig = 0, !.schedLog = {},
                            !.renders = 0, !.propChanges = 0, !.ctxReads = {},
                            !.wlog = {}, !.wefRuns = 0, !.tickLog = {}] ]

CommitReactive(s) ==
    /\ store' = s.store
    /\ arr' = s.arr
    /\ box' = s.box
    /\ cmpValue' = s.cmpValue
    /\ dirty' = s.dirty
    /\ created' = s.created
    /\ bucket' = s.bucket
    /\ deps' = s.deps
    /\ activeEffect' = s.activeEffect
    /\ effectStack' = s.effectStack
    /\ jobQueue' = s.jobQueue
    /\ isFlushing' = s.isFlushing
    /\ currentFlushPromise' = s.currentFlushPromise
    /\ reactions' = s.reactions
    /\ microtasks' = s.microtasks
    /\ inst' = s.inst
    /\ wat' = s.wat
    /\ hist' = s.hist

Commit(s) == CommitReactive(s) /\ UNCHANGED dvars

(* ------------------------------ effect.ts ----------------------------- *)
track(s, dk) ==
    IF s.activeEffect = NoEffect THEN s
    ELSE [s EXCEPT !.bucket[dk] = SetAdd(@, s.activeEffect)]

\* effectFn.deps?.forEach((deps) => deps.delete(effectFn))
clean(s, e) ==
    [s EXCEPT !.bucket = [dk \in DepKeys |->
                            IF dk \in s.deps[e] THEN SetDelete(@[dk], e) ELSE @[dk]]]

FlushPending(s) == \E i \in 1 .. Len(s.microtasks) : s.microtasks[i].kind = "flushThen"
Micro(kind, target, key, val) == [kind |-> kind, target |-> target, key |-> key, val |-> val]

(* ----------------------------- scheduler.ts --------------------------- *)
flushJob(s) ==
    IF s.isFlushing THEN s
    ELSE [s EXCEPT !.isFlushing = TRUE, !.currentFlushPromise = "pending",
                   !.microtasks = Append(@, Micro("flushThen", "-", "-", "-"))]

\* a queue that is an array, not a Set
queueJob_NoDedup(s, fn) ==
    flushJob([s EXCEPT !.jobQueue = Append(@, fn), !.hist.owed = @ \cup {fn}])

\* a queue that moves a callback queued again to its end
queueJob_Requeue(s, fn) ==
    flushJob([s EXCEPT !.jobQueue = Append(SetDelete(@, fn), fn), !.hist.owed = @ \cup {fn}])

queueJob(s, fn) ==
    flushJob([s EXCEPT !.jobQueue = SetAdd(@, fn), !.hist.owed = @ \cup {fn}])

\* nextTick(fn), fn being the callback i
nextTick(s, i) ==
    LET s1 == [s EXCEPT !.hist.tick[i] =
                   [at |-> "called",
                    pending |-> s.currentFlushPromise # "null",
                    wait |-> Range(s.jobQueue) \ Range(s.hist.pass.ran)]]
    IN  IF s.currentFlushPromise # "null"
        THEN [s1 EXCEPT !.reactions = Append(@, i)]
        ELSE [s1 EXCEPT !.microtasks = Append(@, Micro("tick", "-", i, "-"))]

\* the callback i given to nextTick runs
tickCallback(s, i) ==
    [s EXCEPT !.hist.tickLog = @ \cup {s.hist.tick[i]}, !.hist.tick[i] = NoTick]

(* ------------------ reads and writes of the raw targets --------------- *)
\* target.length
length(s, target) == IF target = "arr" THEN Num(Len(s.arr)) ELSE "undefined"
isArray(target) == target = "arr"

ReflectGet(s, target, key) ==
    IF target = "obj" THEN s.store[key]
    ELSE IF target = "props"
    THEN IF s.inst.props[key] = Absent THEN "undefined" ELSE s.inst.props[key]
    ELSE IF key = "length" THEN Num(Len(s.arr))
    ELSE IF index(key) < Len(s.arr) THEN s.arr[index(key) + 1] ELSE "undefined"

Holes(n) == [i \in 1 .. n |-> "undefined"]

ReflectSet(s, target, key, newVal) ==
    IF target = "obj" THEN [s EXCEPT !.store[key] = newVal]
    ELSE IF target = "props" THEN [s EXCEPT !.inst.props[key] = newVal]
    ELSE IF key = "length"
         THEN [s EXCEPT !.arr = IF numberOf(newVal) <= Len(@)
                                THEN SubSeq(@, 1, numberOf(newVal))
                                ELSE @ \o Holes(numberOf(newVal) - Len(@))]
    ELSE IF index(key) < Len(s.arr)
         THEN [s EXCEPT !.arr[index(key) + 1] = newVal]
    ELSE [s EXCEPT !.arr = (@ \o Holes(index(key) - Len(@))) \o <<newVal>>]

\* history: the running subscriber read dk
Innermost(running) == IF running = <<>> THEN NoEffect ELSE running[Len(running)]

\* history: a read of dk tracked for the effect active
NoteTracked(h, active, dk) ==
    [h EXCEPT !.reads = IF active = NoEffect THEN @
                        ELSE [@ EXCEPT ![active] = @ \cup {dk}],
              !.misTracked = IF active = Innermost(h.running) THEN @
                             ELSE @ \cup {[key |-> dk, got |-> active,
                                           want |-> Innermost(h.running)]}]

NoteRead(s, dk) == [s EXCEPT !.hist = NoteTracked(@, s.activeEffect, dk)]

\* history: trigger(dk) is about to notify e
NoteNotify(s, e, dk) ==
    [s EXCEPT !.hist.invoked = IF s.hist.lastWrite.target = "none" THEN @ ELSE @ \cup {e},
              !.hist.staleHit = IF dk \notin s.hist.reads[e] /\ ~InSeq(e, s.effectStack)
                                THEN @ \cup {<<e, dk>>} ELSE @]

\* history: trigger(dk) was called
NoteTrigger(s, dk) ==
    [s EXCEPT !.hist.depTrig = @ \/ (dk \in s.hist.reads["cmp"]
                                      /\ ~InSeq("cmp", s.effectStack)),
              !.hist.valueTrig = IF dk = <<"cmp", "value">> THEN @ + 1 ELSE @]

RECURSIVE effect(_, _), effectFn(_, _), fn(_, _), trigger(_, _), triggerLoop(_, _, _), invoke(_, _),
          proxySet(_, _, _, _), refSet(_, _), computedGet(_), computedScheduler(_),
          job(_, _), jobEffect(_)

\* the wrapper effect() builds around fn; a call the call stack has no room
\* for throws, and a throw of fn leaves the wrapper before effectStack.pop()
effectFn(s, e) ==
    LET s1 == clean(s, e)
        s2 == [s1 EXCEPT !.activeEffect = e, !.effectStack = Append(@, e),
                         !.hist.running = Append(@, e),
                         !.hist.reads[e] = {},
                         !.hist.getterRuns = IF e = "cmp" THEN @ + 1 ELSE @,
                         !.hist.eager = @ \/ (e = "cmp" /\ ~s.hist.inRead)]
        restore(s4) ==
            [s4 EXCEPT !.activeEffect = IF s4.effectStack = <<>> THEN NoEffect
                                        ELSE s4.effectStack[Len(s4.effectStack)]]
        pop(s3) ==
            IF s3.hist.threw THEN s3
            ELSE restore([s3 EXCEPT !.effectStack = SubSeq(@, 1, Len(@) - 1),
                                    !.hist.running = SubSeq(@, 1, Len(@) - 1)])
    IN  IF Len(s.hist.running) >= MaxDepth
        THEN [s EXCEPT !.hist.threw = TRUE, !.hist.overflow = TRUE,
                       !.hist.running = <<>>]
        ELSE pop(fn(s2, e))

\* effectFn.options.scheduler(effectFn), else effectFn()
invoke(s, e) ==
    CASE schedulerOf(e) = "queueJob" ->
            LET s1 == queueJob([s EXCEPT !.hist.order = SetAdd(@, e)], e)
            IN  IF FlushPending(s1) THEN [s1 EXCEPT !.hist.trig[e] = @ + 1] ELSE s1
      [] schedulerOf(e) = "computed" ->
            LET log(s1) ==
                    [s1 EXCEPT !.hist.schedLog = @ \cup
                        {[wasDirty |-> s.dirty,
                          notified |-> s1.hist.valueTrig - s.hist.valueTrig,
                          readers |-> Range(s.bucket[<<"cmp", "value">>]),
                          dirtyAfter |-> s1.dirty,
                          readDuring |-> s1.hist.readSeen]}]
            IN  log(computedScheduler([s EXCEPT !.hist.schedTrig = TRUE,
                                                !.hist.readSeen = FALSE]))
      [] schedulerOf(e) = "watch" ->
            IF s.wat[e].post
            THEN [s EXCEPT !.microtasks = Append(@, Micro("job", e, "-", "-"))]
            ELSE job(s, e)
      [] schedulerOf(e) = "watchEffect" -> jobEffect(s)
      [] OTHER -> LET called(t) ==
                          [t EXCEPT !.hist.reentered =
                               IF InSeq(e, t.hist.running) THEN @ \cup {e} ELSE @]
                  IN  effectFn(called(s), e)

\* deps.forEach(...): a Set's forEach also visits what is added while it runs;
\* a throw of a callback ends it
triggerLoop(s, dk, i) ==
    IF s.hist.threw \/ i > Len(s.bucket[dk]) THEN s
    ELSE LET e == s.bucket[dk][i]
         IN  triggerLoop(invoke(NoteNotify(s, e, dk), e), dk, i + 1)

trigger(s, dk) == triggerLoop(NoteTrigger(s, dk), dk, 1)

(* ----------------------------- reactive.ts ---------------------------- *)
\* the get trap; the value read is ReflectGet(s, target, key)
proxyGet(s, target, key) == NoteRead(track(s, <<target, key>>), <<target, key>>)

\* the set trap
proxySet(s, target, key, newVal) ==
    LET oldLength == length(s, target)
        oldVal == ReflectGet(s, target, key)
        s1 == ReflectSet(s, target, key, newVal)
        lengthTrigger(s2) ==
            IF isArray(target) /\ oldLength # length(s2, target)
            THEN trigger(s2, <<target, "length">>)
            ELSE s2
    IN  IF hasChanged(oldVal, newVal)
        THEN lengthTrigger(trigger(s1, <<target, key>>))
        ELSE s1

(* -------------------------------- ref.ts ------------------------------ *)
\* RefImpl.get value; the value read is s.box
refGet(s) == NoteRead(track(s, <<"box", "value">>), <<"box", "value">>)

\* RefImpl.set value (conver leaves the primitive values of this model as they are)
refSet(s, newVal) ==
    IF hasChanged(s.box, newVal)
    THEN trigger([s EXCEPT !.box = newVal], <<"box", "value">>)
    ELSE s

(* ------------------------------ computed.ts --------------------------- *)
\* a scheduler that notifies the readers on every call
computedScheduler_NoDirtyTest(s) ==
    trigger([s EXCEPT !.dirty = TRUE], <<"cmp", "value">>)

\* the scheduler of the derived value's own effect
computedScheduler(s) ==
    IF ~s.dirty THEN trigger([s EXCEPT !.dirty = TRUE], <<"cmp", "value">>) ELSE s

\* ComputedImpl.get value, without the history; the value read is s.cmpValue
computedGetCode(s) ==
    IF s.dirty
    THEN LET assign(s1) == [s1 EXCEPT !.cmpValue = s1.ret, !.dirty = FALSE]
         IN  NoteRead(track(assign(effectFn(s, "cmp")), <<"cmp", "value">>),
                      <<"cmp", "value">>)
    ELSE NoteRead(s, <<"cmp", "value">>)

\* ComputedImpl.get value, with the history of the read
computedGet(s) ==
    LET log(s1) ==
            [s1 EXCEPT !.hist.inRead = s.hist.inRead, !.hist.readSeen = TRUE,
                       !.hist.readLog = @ \cup {[first |-> ~s.hist.everRead,
                                                 depTrig |-> s.hist.depTrig,
                                                 schedTrig |-> s.hist.schedTrig,
                                                 ran |-> s1.hist.getterRuns]},
                       !.hist.everRead = TRUE, !.hist.depTrig = FALSE,
                       !.hist.schedTrig = FALSE]
    IN  log(computedGetCode([s EXCEPT !.hist.getterRuns = 0, !.hist.inRead = TRUE]))

(* ------------------- the computations of the subscribers -------------- *)
\* state.flag === 'x' ? state.a : state.b
fnConditional(s) ==
    LET s1 == proxyGet(s, "obj", "flag")
        s2 == IF ReflectGet(s1, "obj", "flag") = "x"
              THEN proxyGet(s1, "obj", "a") ELSE proxyGet(s1, "obj", "b")
    IN  [s2 EXCEPT !.ret = IF s.store["flag"] = "x" THEN s.store["a"] ELSE s.store["b"]]

\* state.b = state.a
fnCopy(s) ==
    LET s1 == proxyGet(s, "obj", "a")
    IN  proxySet(s1, "obj", "b", ReflectGet(s1, "obj", "a"))

\* list.length; list[0]; count.value; state.a
fnValues(s) ==
    proxyGet(refGet(proxyGet(proxyGet(s, "arr", "length"), "arr", IdxKey(0))), "obj", "a")

\* state.a
fnInner(s) == proxyGet(s, "obj", "a")

\* state.flag; effect(() => state.a); state.b
fnOuter(s) == proxyGet(effect(proxyGet(s, "obj", "flag"), "inn"), "obj", "b")

\* state.a = state.a === 'x' ? 'y' : 'x'
fnSelf(s) ==
    LET s1 == proxyGet(s, "obj", "a")
    IN  proxySet(s1, "obj", "a", IF ReflectGet(s1, "obj", "a") = "x" THEN "y" ELSE "x")

(* ------------------------------ component.ts -------------------------- *)
\* what the child's setup returns: n is a boxed reference, m a plain value
setupState == [n |-> "ref", m |-> "s"]
isRef(value) == value = "ref"

\* updateProps: for (const key in vnodeProps), from the i-th key on; a write to
\* instance.props goes through the set trap once it is the reactive proxy
RECURSIVE updatePropsLoop(_, _, _)
updatePropsLoop(s, vnodeProps, i) ==
    IF i > Len(VnodeKeys)
    THEN s
    ELSE LET key == VnodeKeys[i]
             s1 == IF vnodeProps[key] = Absent
                   THEN s
                   ELSE IF key \in Declared
                   THEN IF s.inst.isReactive
                        THEN proxySet(s, "props", key, vnodeProps[key])
                        ELSE [s EXCEPT !.inst.props[key] = vnodeProps[key]]
                   ELSE [s EXCEPT !.inst.attrs[key] = vnodeProps[key]]
         IN  updatePropsLoop(s1, vnodeProps, i + 1)

updateProps(s, vnodeProps) ==
    [updatePropsLoop(s, vnodeProps, 1) EXCEPT !.inst.isReactive = TRUE]

\* what a read of key through the render context is to return
wantedCtx(s, key) ==
    IF key \in SetupKeys
    THEN IF isRef(setupState[key]) THEN s.box ELSE setupState[key]
    ELSE IF key \in Declared /\ s.inst.props[key] # Absent THEN s.inst.props[key]
    ELSE IF key \in AttrKeys /\ s.inst.attrs[key] # Absent THEN s.inst.attrs[key]
    ELSE "undefined"

\* instance.ctx[key]: the get trap of createAutoUnwrapProxy, or a property of
\* the plain object; the value read is s.ret
ctxGet(s, key) ==
    IF s.inst.ctx = "proxy"
    THEN IF key \in SetupKeys
         THEN IF isRef(setupState[key])
              THEN [refGet(s) EXCEPT !.ret = s.box]
              ELSE [s EXCEPT !.ret = setupState[key]]
         ELSE IF key \in Declared /\ s.inst.props[key] # Absent
         THEN [proxyGet(s, "props", key) EXCEPT !.ret = s.inst.props[key]]
         ELSE IF key \in AttrKeys /\ s.inst.attrs[key] # Absent
         THEN [s EXCEPT !.ret = s.inst.attrs[key]]
         ELSE [s EXCEPT !.ret = "undefined"]
    ELSE [s EXCEPT !.ret = IF s.inst.copy[key] = Absent THEN "undefined"
                           ELSE s.inst.copy[key]]

\* Component.render(instance.ctx): the render function reads CtxKeys in order
RECURSIVE renderLoop(_, _)
renderLoop(s, i) ==
    IF i > Len(CtxKeys)
    THEN s
    ELSE LET s1 == ctxGet(s, CtxKeys[i])
         IN  renderLoop([s1 EXCEPT !.hist.ctxReads = @ \cup
                            {[key |-> CtxKeys[i], got |-> s1.ret,
                              want |-> wantedCtx(s, CtxKeys[i])]}], i + 1)

render(s) == renderLoop([s EXCEPT !.hist.renders = @ + 1], 1)

\* the reads of { ...instance.props }: the get trap for each key it has
RECURSIVE spreadProps(_, _)
spreadProps(s, i) ==
    IF i > Len(VnodeKeys)
    THEN s
    ELSE IF VnodeKeys[i] \in Declared /\ s.inst.props[VnodeKeys[i]] # Absent
    THEN spreadProps(proxyGet(s, "props", VnodeKeys[i]), i + 1)
    ELSE spreadProps(s, i + 1)

\* instance.ctx = { ...instance.props, ...instance.setupState }
spreadCtx(s) ==
    [spreadProps(s, 1) EXCEPT
        !.inst.ctx = "copy",
        !.inst.copy = [k \in Range(CtxKeys) |->
                          IF k \in SetupKeys THEN setupState[k]
                          ELSE IF k \in Declared THEN s.inst.props[k]
                          ELSE Absent]]

\* the function of instance.update
componentUpdate(s) ==
    IF ~s.inst.isMounted
    THEN [render(s) EXCEPT !.inst.isMounted = TRUE]
    ELSE IF s.inst.hasNext
    THEN LET v == s.inst.next
             changed == {k \in Declared : v[k] # Absent /\ v[k] # s.inst.props[k]}
             s1 == [s EXCEPT !.inst.vnode = v, !.inst.hasNext = FALSE,
                             !.inst.next = NoProps,
                             !.hist.propChanges = @ + Cardinality(changed)]
         IN  render(spreadCtx(updateProps(s1, v)))
    ELSE render(s)

\* mountComponent of the child
mountComponent(s, vnodeProps) ==
    LET s1 == updateProps([s EXCEPT !.inst = [NoInstance EXCEPT !.vnode = vnodeProps]],
                          vnodeProps)
    IN  effect([s1 EXCEPT !.inst.ctx = "proxy"], "upd")

\* updateComponent of the child
updateComponent(s, vnodeProps) ==
    effectFn([s EXCEPT !.inst.hasNext = TRUE, !.inst.next = vnodeProps], "upd")

\* the props the parent's render function gives the child vnode:
\* h(Child, { p: state.a, m: state.a,
\*            ...(state.flag === 'x' ? { q: state.b, id: state.b } : {}) })
childProps(s) ==
    [k \in Range(VnodeKeys) |->
        IF k \in {"p", "m"} THEN s.store["a"]
        ELSE IF s.store["flag"] = "x" THEN s.store["b"] ELSE Absent]

\* the function of the parent's render effect: it renders the child vnode and
\* patches it, which mounts the child or updates it in place
fnParent(s) ==
    LET s1 == proxyGet(proxyGet(s, "obj", "a"), "obj", "flag")
        s2 == IF s.store["flag"] = "x" THEN proxyGet(s1, "obj", "b") ELSE s1
    IN  IF "upd" \in s.created
        THEN updateComponent(s2, childProps(s2))
        ELSE mountComponent(s2, childProps(s2))

(* ------------------------- watch, watchEffect ------------------------- *)
\* onInvalidate(fn)
onInvalidate(s, w) ==
    [s EXCEPT !.wat[w].cleanUp = TRUE, !.hist.wCleaned[w] = FALSE]

\* the source of the watchers: () => state.a; the value is s.ret
getter(s) == [proxyGet(s, "obj", "a") EXCEPT !.ret = s.store["a"]]

\* history: cleanUp() is called
NoteCleanup(s, w) ==
    [s EXCEPT !.hist.wCleaned[w] = TRUE,
              !.hist.wCleanedTwice = IF s.hist.wCleaned[w] THEN @ \cup {w} ELSE @]

\* the callback given to watch:
\* (oldVal, newVal, onInvalidate) => {
\*   if (newVal === 'y') { onInvalidate(fn); if (state.flag === 'x') state.a = 'x' } }
cbWatch(s, w, oldVal, newVal) ==
    LET s1 == [s EXCEPT !.hist.wlog = @ \cup
                   {[w |-> w, old |-> oldVal, new |-> newVal,
                     now |-> s.store["a"],
                     first |-> ~s.hist.wInvoked[w],
                     prevNew |-> s.hist.wPrevNew[w],
                     subVal |-> s.hist.wSubVal[w],
                     immediate |-> s.wat[w].immediate,
                     inWatch |-> s.hist.inWatch]},
                         !.hist.wInvoked[w] = TRUE,
                         !.hist.wPrevNew[w] = newVal]
    IN  IF newVal = "y"
        THEN LET s2 == proxyGet(onInvalidate(s1, w), "obj", "flag")
             IN  IF s2.store["flag"] = "x" THEN proxySet(s2, "obj", "a", "x") ELSE s2
        ELSE s1

\* the job of watch
job(s, w) ==
    LET setOld(s4) == [s4 EXCEPT !.wat[w].oldVal = s4.wat[w].newVal]
        call(s3) == setOld(cbWatch(s3, w, s3.wat[w].oldVal, s3.wat[w].newVal))
        cleanup(s2) == call(IF s2.wat[w].cleanUp THEN NoteCleanup(s2, w) ELSE s2)
        setNew(s1) == cleanup([s1 EXCEPT !.wat[w].newVal = s1.ret])
    IN  setNew(effectFn(s, w))

\* watch(source, cb, options) with the normalized source
watch(s, immediate, post) ==
    LET s1 == effect([s EXCEPT !.wat["wch"] = [NoWatcher EXCEPT !.immediate = immediate,
                                                               !.post = post],
                               !.hist.wSubVal["wch"] = s.store["a"],
                               !.hist.inWatch = TRUE], "wch")
        setOld(s2) == [s2 EXCEPT !.wat["wch"].oldVal = s2.ret]
        first(s3) == IF immediate THEN job(s3, "wch") ELSE s3
    IN  [first(setOld(effectFn(s1, "wch"))) EXCEPT !.hist.inWatch = FALSE]

\* watch(souce, cb, options) of watch.ts
watchTs(s, immediate) ==
    LET s1 == effect([s EXCEPT !.wat["wts"] = [NoWatcher EXCEPT !.immediate = immediate],
                               !.hist.wSubVal["wts"] = s.store["a"],
                               !.hist.inWatch = TRUE], "wts")
        setOld(s3) == [s3 EXCEPT !.wat["wts"].oldVal = s3.ret]
        s2 == IF immediate THEN job(s1, "wts") ELSE setOld(effectFn(s1, "wts"))
    IN  [s2 EXCEPT !.hist.inWatch = FALSE]

\* the callback given to watchEffect:
\* (onInvalidate) => { if (state.flag === 'x') { state.a; onInvalidate(fn) } else state.b }
cbEffect(s) ==
    LET s1 == proxyGet(s, "obj", "flag")
        s2 == IF s.store["flag"] = "x"
              THEN onInvalidate(proxyGet(s1, "obj", "a"), "wef")
              ELSE proxyGet(s1, "obj", "b")
    IN  [s2 EXCEPT !.hist.wefRuns = @ + 1,
                   !.hist.wefRead = {<<"obj", "flag">>,
                                     <<"obj", IF s.store["flag"] = "x" THEN "a" ELSE "b">>}]

\* the job of watchEffect
jobEffect(s) ==
    cbEffect(IF s.wat["wef"].cleanUp THEN NoteCleanup(s, "wef") ELSE s)

\* watchEffect(cb)
watchEffect(s) == effectFn(effect(s, "wef"), "wef")

fn(s, e) ==
    CASE e \in {"r1", "cmp"} -> fnConditional(s)
      [] e = "wch" -> getter(s)
      [] e = "wts" -> [s EXCEPT !.ret = "function"]
      [] e = "wef" -> cbEffect(s)
      [] e = "par" -> fnParent(s)
      [] e = "upd" -> componentUpdate(s)
      [] e = "r2" -> fnCopy(s)
      [] e \in {"sv", "qv"} -> fnValues(s)
      [] e \in {"crd", "qrd"} -> computedGet(s)
      [] e = "out" -> fnOuter(s)
      [] e = "inn" -> fnInner(s)
      [] e = "self" -> fnSelf(s)

\* effect(fn, options): the wrapper is built, and run unless lazy
effect(s, e) ==
    LET s1 == [s EXCEPT !.created = @ \cup {e}, !.deps[e] = {}]
    IN  IF e \in {"cmp"} \cup WatchEffects THEN s1 ELSE effectFn(s1, e)

(* ------------------------ the flush's microtasks ---------------------- *)
RECURSIVE forEachJob(_, _)
\* jobQueue.forEach((fn) => fn()): a Set's forEach also visits what is added
\* while it runs
forEachJob(s, i) ==
    IF i > Len(s.jobQueue) THEN s
    ELSE LET f == s.jobQueue[i]
             s1 == [s EXCEPT !.hist.owed = @ \ {f}, !.hist.pass.ran = Append(@, f),
                             !.hist.tick = [c \in TickIds |->
                                               [@[c] EXCEPT !.wait = @ \ {f}]]]
         IN  forEachJob(effectFn(s1, f), i + 1)

\* the callback of resolvePromise.then
flushThen(s) ==
    LET s1 == [s EXCEPT !.hist.pass = [done |-> TRUE, preTrig |-> s.hist.trig,
                                       atStart |-> s.jobQueue, ran |-> <<>>,
                                       atEnd |-> <<>>],
                        !.hist.trig = [e \in Effects |-> 0]]
        settle(s2) ==
            [s2 EXCEPT !.hist.pass.atEnd = s2.hist.order,
                       !.microtasks = Append(@, Micro("flushFinally", "-", "-", "-"))]
    IN  settle(forEachJob(s1, 1))

\* the callback of .finally; the promise it settles then queues the callbacks
\* chained to it
flushFinally(s) ==
    [s EXCEPT !.isFlushing = FALSE, !.jobQueue = <<>>, !.currentFlushPromise = "null",
              !.microtasks = @ \o [a \in 1 .. Len(s.reactions) |->
                                      Micro("tick", "-", s.reactions[a], "-")],
              !.reactions = <<>>,
              !.hist.pass = NoPass, !.hist.order = <<>>]

(* ------------------------------- actions ------------------------------ *)
TrigOK(s) ==
    /\ \A e \in Effects : s.hist.trig[e] <= MaxTrig
    /\ Cardinality({i \in 1 .. Len(s.microtasks) : s.microtasks[i].kind = "job"})
           <= MaxTrig
UserMicros(q) == Cardinality({i \in 1 .. Len(q) : q[i].kind = "write"})

\* history: the application's write this action makes
NoteWrite(s, target, key, newVal) ==
    [s EXCEPT !.hist.lastWrite =
        [target |-> target, key |-> key,
         same |-> IF target = "box" THEN newVal = s.box
                  ELSE newVal = ReflectGet(s, target, key),
         lenChanged |-> target = "arr" /\
                        Len(ReflectSet(s, target, key, newVal).arr) # Len(s.arr),
         lengthSubs |-> Range(s.bucket[<<"arr", "length">>]),
         watched |-> <<target, key>> \in s.hist.wefRead]]

\* no patch of two vnodes is modelled
InitNoVnode ==
    /\ preVnode = "none"
    /\ newVnode = "none"
    /\ diff = "none"

\* no call of getSequence is modelled
InitNoSequence ==
    /\ seqInput = <<>>
    /\ seqResult = <<>>
    /\ prevHost = <<>>

\* no children diff is modelled
InitNoDiff ==
    /\ oldChildren = <<>>
    /\ newChildren = <<>>
    /\ host = <<>>
    /\ el = <<>>
    /\ ops = <<>>
    /\ phase = "none"
    /\ textContent = <<>>
    /\ InitNoVnode
    /\ InitNoSequence

InitReactive ==
    /\ arr = <<>>
    /\ box = "x"
    /\ cmpValue = "undefined"
    /\ dirty = TRUE
    /\ created = {}
    /\ bucket = [dk \in DepKeys |-> <<>>]
    /\ deps = [e \in Effects |-> {}]
    /\ activeEffect = NoEffect
    /\ effectStack = <<>>
    /\ jobQueue = <<>>
    /\ isFlushing = FALSE
    /\ currentFlushPromise = "null"
    /\ reactions = <<>>
    /\ microtasks = <<>>
    /\ draining = FALSE
    /\ inst = NoInstance
    /\ wat = [w \in WatchEffects |-> NoWatcher]
    /\ hist = HistInit

\* effect(fn) / effect(fn, {scheduler: queueJob}) at top level
CreateEffect(e) ==
    /\ ~draining
    /\ e \notin created
    /\ LET s == effect(Cur, e)
       IN  TrigOK(s) /\ Commit(s)
    /\ UNCHANGED draining

\* state[k] = v at top level
Write(k, v) ==
    /\ ~draining
    /\ LET s == proxySet(Cur, "obj", k, v)
       IN  TrigOK(s) /\ Commit(s)
    /\ UNCHANGED draining

\* Promise.resolve().then(() => { state[k] = v }) at top level
SpawnWrite(k, v) ==
    /\ ~draining
    /\ UserMicros(microtasks) < MaxMicro
    /\ Commit([Cur EXCEPT !.microtasks = Append(@, Micro("write", "obj", k, v))])
    /\ UNCHANGED draining

\* the microtask queued by flushJob runs
RunFlushThen ==
    /\ microtasks # <<>>
    /\ Head(microtasks).kind = "flushThen"
    /\ LET s == flushThen([Cur EXCEPT !.microtasks = Tail(@)])
       IN  Commit(s) /\ draining' = (s.microtasks # <<>>)

\* the microtask of the flush's .finally runs
RunFlushFinally ==
    /\ microtasks # <<>>
    /\ Head(microtasks).kind = "flushFinally"
    /\ LET s == flushFinally([Cur EXCEPT !.microtasks = Tail(@)])
       IN  Commit(s) /\ draining' = (s.microtasks # <<>>)

\* a microtask of the application runs its write
RunWrite ==
    /\ microtasks # <<>>
    /\ Head(microtasks).kind = "write"
    /\ LET m == Head(microtasks)
           s0 == [Cur EXCEPT !.microtasks = Tail(@)]
           s == proxySet(s0, m.target, m.key, m.val)
       IN  TrigOK(s) /\ Commit(s) /\ draining' = (s.microtasks # <<>>)

Init ==
    /\ store \in [ObjKeys -> ObjVals]
    /\ InitReactive
    /\ InitNoDiff

Next ==
    \/ \E e \in MainEffects : CreateEffect(e)
    \/ \E k \in ObjKeys, v \in ObjVals : Write(k, v)
    \/ \E k \in ObjKeys, v \in ObjVals : SpawnWrite(k, v)
    \/ RunFlushThen
    \/ RunFlushFinally
    \/ RunWrite

vars == <<rvars, dvars>>

Spec == Init /\ [][Next]_vars

(* ------------------------------- claims ------------------------------- *)
\* C1: a subscriber whose scheduler is queueJob, triggered n >= 1 times while a
\* flush is pending and has not started, is executed exactly once by that flush.
C1_OneRunPerFlush ==
    hist.pass.done =>
        \A e \in Effects : hist.pass.preTrig[e] >= 1 => Count(e, hist.pass.ran) = 1

\* C1 witness: a flush pass has run a subscriber that had been triggered twice or more
C1_Witness ==
    /\ hist.pass.done
    /\ \E e \in Effects : hist.pass.preTrig[e] >= 2 /\ Count(e, hist.pass.ran) = 1

\* C2: no enqueued job is lost: once the scheduler is idle again (no microtask
\* left, the in-flight flag reset), every call queueJob(fn) has been followed by
\* an execution of fn that started after the call.
C2_NoJobLost ==
    (microtasks = <<>> /\ ~isFlushing) => hist.owed = {}

\* C3: a flush pass runs only the callbacks that were queued when it started; a
\* callback passed to queueJob while the pass executes is not run by that pass.
C3_PassRunsOnlyQueuedAtStart ==
    hist.pass.done => Range(hist.pass.ran) \subseteq Range(hist.pass.atStart)

\* C4: a trigger on a key that a subscriber's most recent run did not read
\* (although an earlier run did) neither runs nor schedules that subscriber.
C4_StaleDepsDropped == hist.staleHit = {}

\* C24: within one flush the queued callbacks run in the order of their first
\* enqueue, each exactly once: the pass has run exactly the callbacks passed to
\* queueJob up to its end, in the order of their first calls, and a callback
\* queued again while pending keeps its place.
C24_FirstEnqueueOrder ==
    hist.pass.done => hist.pass.ran = hist.pass.atEnd

\* C24 witness: a pass has run two callbacks, the first of which had been
\* queued again after the second was queued
C24_Witness ==
    /\ hist.pass.done
    /\ Len(hist.pass.ran) = 2
    /\ hist.pass.preTrig[hist.pass.ran[1]] >= 2
    /\ hist.pass.preTrig[hist.pass.ran[2]] >= 1
    /\ hist.pass.ran = hist.pass.atEnd

(* ------------------------------ nextTick ------------------------------ *)
\* nextTick(fn) at top level
NextTick(i) ==
    /\ ~draining
    /\ hist.tick[i].at = "free"
    /\ Commit(nextTick(Cur, i))
    /\ UNCHANGED draining

\* Promise.resolve().then(() => nextTick(fn)) at top level
SpawnNextTick(i) ==
    /\ ~draining
    /\ hist.tick[i].at = "free"
    /\ Commit([Cur EXCEPT !.microtasks = Append(@, Micro("nextTick", "-", i, "-")),
                          !.hist.tick[i].at = "spawned"])
    /\ UNCHANGED draining

\* the microtask of the application calls nextTick
RunNextTick ==
    /\ microtasks # <<>>
    /\ Head(microtasks).kind = "nextTick"
    /\ LET s == nextTick([Cur EXCEPT !.microtasks = Tail(@)], Head(microtasks).key)
       IN  Commit(s) /\ draining' = (s.microtasks # <<>>)

\* the microtask of a callback given to nextTick runs
RunTick ==
    /\ microtasks # <<>>
    /\ Head(microtasks).kind = "tick"
    /\ LET s == tickCallback([Cur EXCEPT !.microtasks = Tail(@)], Head(microtasks).key)
       IN  Commit(s) /\ draining' = (s.microtasks # <<>>)

NextNextTick ==
    \/ \E e \in MainEffects : CreateEffect(e)
    \/ \E k \in ObjKeys, v \in ObjVals : Write(k, v)
    \/ \E k \in ObjKeys, v \in ObjVals : SpawnWrite(k, v)
    \/ \E i \in TickIds : NextTick(i)
    \/ \E i \in TickIds : SpawnNextTick(i)
    \/ RunFlushThen
    \/ RunFlushFinally
    \/ RunWrite
    \/ RunNextTick
    \/ RunTick

SpecNextTick == Init /\ [][NextNextTick]_vars

\* C23: a callback passed to nextTick while a flush is pending runs only after
\* every callback that was queued and not yet run at the call has been run by
\* that flush; with no flush pending the callback is queued as a microtask by
\* the call itself.
C23_NextTickAfterFlush ==
    /\ \A r \in hist.tickLog : r.pending => r.wait = {}
    /\ \A i \in TickIds :
          (hist.tick[i].at = "called" /\ ~hist.tick[i].pending) =>
              \E a \in 1 .. Len(microtasks) :
                  microtasks[a].kind = "tick" /\ microtasks[a].key = i

(* --------- the writes of the array, the box and the object, noted ------ *)
\* list[key] = v, list.length = n or state[key] = v at top level
WriteProxy(target, key, v) ==
    /\ ~draining
    /\ LET s == proxySet(NoteWrite(Cur, target, key, v), target, key, v)
       IN  TrigOK(s) /\ Commit(s)
    /\ UNCHANGED draining

\* count.value = v at top level
WriteRef(v) ==
    /\ ~draining
    /\ LET s == refSet(NoteWrite(Cur, "box", "value", v), v)
       IN  TrigOK(s) /\ Commit(s)
    /\ UNCHANGED draining

InitVal ==
    /\ store = [k \in ObjKeys |-> "x"]
    /\ InitReactive
    /\ InitNoDiff

NextVal ==
    \/ \E e \in ValEffects : CreateEffect(e)
    \/ \E i \in 0 .. MaxLen - 1, v \in ArrVals : WriteProxy("arr", IdxKey(i), v)
    \/ \E n \in 0 .. MaxLen : WriteProxy("arr", "length", Num(n))
    \/ \E v \in ObjVals : WriteProxy("obj", "a", v)
    \/ \E v \in BoxVals : WriteRef(v)
    \/ RunFlushThen
    \/ RunFlushFinally

SpecVal == InitVal /\ [][NextVal]_vars

\* C8: a write, through a reactive proxy or a boxed reference, of a value
\* identical to the one stored at that key runs or schedules no subscriber,
\* unless the write also changes an array's length.
C8_SameValueNoTrigger ==
    (hist.lastWrite.target # "none" /\ hist.lastWrite.same /\ ~hist.lastWrite.lenChanged)
        => hist.invoked = {}

\* C8 witness: the stored value was written again to a key that has subscribers
C8_Witness ==
    /\ hist.lastWrite.target \in {"arr", "box"}
    /\ hist.lastWrite.same
    /\ ~hist.lastWrite.lenChanged
    /\ bucket[<<hist.lastWrite.target, hist.lastWrite.key>>] # <<>>
    /\ hist.invoked = {}

\* C9: every write through the array proxy that changes the array's length
\* triggers the subscribers of the 'length' key, whatever value is written.
C9_LengthChangeTriggers ==
    (hist.lastWrite.target = "arr" /\ hist.lastWrite.lenChanged)
        => hist.lastWrite.lengthSubs \subseteq hist.invoked

(* --------------------------- the derived value ------------------------ *)
\* c.value read at top level
ReadComputed ==
    /\ ~draining
    /\ ~draining
    /\ "cmp" \in created
    /\ Commit(computedGet(Cur))
    /\ UNCHANGED draining

\* computed(getter), then effect(() => c.value)
CreateCmpEffect(e) ==
    /\ e \in {"crd", "qrd"} => "cmp" \in created
    /\ CreateEffect(e)

NextCmp ==
    \/ \E e \in CmpEffects : CreateCmpEffect(e)
    \/ \E k \in ObjKeys, v \in ObjVals : Write(k, v)
    \/ ReadComputed
    \/ RunFlushThen
    \/ RunFlushFinally

SpecCmp == Init /\ [][NextCmp]_vars

\* C10: a read of .value that follows another read with no trigger on a
\* dependency of the derived value in between (a key its getter's last run
\* read) does not run the getter; a read that follows one or more such triggers
\* runs the getter exactly once.
C10_Memoized ==
    \A r \in hist.readLog :
        /\ (~r.first /\ ~r.depTrig) => r.ran = 0
        /\ r.depTrig => r.ran = 1

\* The memoization as the dirty flag alone decides it: the getter runs in a
\* read exactly when it is the first read or the derived value's scheduler was
\* invoked since the read before, and then once.
MemoizedPerScheduler ==
    \A r \in hist.readLog : r.ran = (IF r.first \/ r.schedTrig THEN 1 ELSE 0)

\* C11: a subscriber whose last run read .value of the derived value, with the
\* cache dirty or clean at that moment, is in the derived value's own dep set.
C11_ReaderTracked ==
    \A e \in created :
        (~InSeq(e, effectStack) /\ <<"cmp", "value">> \in hist.reads[e])
            => InSeq(e, bucket[<<"cmp", "value">>])

\* C12: the getter never runs outside a read of .value; a call of the derived
\* value's scheduler (a trigger on a source) leaves dirty set unless a reader
\* read .value during the call, and triggers the derived value's own key once
\* when dirty was false before the call and not at all when it was true.
C12_LazyNotifyOnce ==
    /\ ~hist.eager
    /\ \A r \in hist.schedLog :
           /\ r.notified = (IF r.wasDirty THEN 0 ELSE 1)
           /\ r.dirtyAfter \/ r.readDuring

\* C12 witness: a source is triggered while the derived value is already
\* dirty and has a reader that was notified and is queued, not yet rerun
C12_Witness ==
    /\ \E r \in hist.schedLog : r.wasDirty /\ r.notified = 0 /\ "qrd" \in r.readers
    /\ InSeq("qrd", jobQueue)
    /\ ~hist.eager

(* ------------------------------ watchers ------------------------------ *)
\* watch(() => state.a, cb, { immediate, flush }) at top level
CreateWatch(immediate, post) ==
    /\ ~draining
    /\ "wch" \notin created
    /\ Commit(watch(Cur, immediate, post))
    /\ UNCHANGED draining

\* the watch of watch.ts, called with the same source and callback
CreateWatchTs(immediate) ==
    /\ ~draining
    /\ "wts" \notin created
    /\ Commit(watchTs(Cur, immediate))
    /\ UNCHANGED draining

\* watchEffect(cb) at top level
CreateWatchEffect ==
    /\ ~draining
    /\ "wef" \notin created
    /\ Commit(watchEffect(Cur))
    /\ UNCHANGED draining

\* the microtask of a watcher with flush 'post' runs its job
RunJob ==
    /\ microtasks # <<>>
    /\ Head(microtasks).kind = "job"
    /\ LET s == job([Cur EXCEPT !.microtasks = Tail(@)], Head(microtasks).target)
       IN  TrigOK(s) /\ Commit(s) /\ draining' = (s.microtasks # <<>>)

NextWatch ==
    \/ \E immediate, post \in BOOLEAN : CreateWatch(immediate, post)
    \/ \E immediate \in BOOLEAN : CreateWatchTs(immediate)
    \/ CreateWatchEffect
    \/ \E k \in ObjKeys, v \in ObjVals : WriteProxy("obj", k, v)
    \/ RunJob

SpecWatch == Init /\ [][NextWatch]_vars

\* C14: watch with immediate false: the first invocation of the callback gets
\* as oldValue the getter's value when watch was called and as newValue the
\* getter's value at the invocation; every later invocation gets as oldValue
\* the newValue of the invocation before it.
C14_WatchValues ==
    \A r \in hist.wlog :
        (r.w = "wch" /\ ~r.immediate) =>
            /\ r.first => (r.old = r.subVal /\ r.new = r.now)
            /\ ~r.first => r.old = r.prevNew

\* C15: with immediate true the callback is invoked during the call of watch,
\* the first time with oldValue undefined and newValue the getter's value.
C15_ImmediateFirstCall ==
    /\ \A w \in {"wch", "wts"} :
           (w \in created /\ wat[w].immediate) => hist.wInvoked[w]
    /\ \A r \in hist.wlog :
           (r.immediate /\ r.first) =>
               (r.inWatch /\ r.old = "undefined" /\ r.new = r.now)

\* C16: a cleanup registered during an invocation of a watcher's callback is
\* called at most once.
C16_CleanupOnce == hist.wCleanedTwice = {}

\* C17: watchEffect has run its callback once it returns, and a write that
\* changes a key the callback's most recent run read reruns the callback
\* during the write.
C17_WatchEffectReruns ==
    "wef" \in created =>
        /\ hist.wefRead # {}
        /\ (hist.lastWrite.watched /\ ~hist.lastWrite.same) => hist.wefRuns >= 1

\* the getter's key is tracked for the watcher w, whose lazy subscriber
\* gave the getter's value, and the write of this action that changed the
\* key invoked w's callback
SubscribedToSource(w) ==
    /\ InSeq(w, bucket[<<"obj", "a">>])
    /\ (~wat[w].immediate /\ ~hist.wInvoked[w]) => wat[w].oldVal = hist.wSubVal[w]
    /\ (/\ hist.lastWrite.target = "obj"
        /\ hist.lastWrite.key = "a"
        /\ ~hist.lastWrite.same
        /\ ~wat[w].post) => \E r \in hist.wlog : r.w = w

\* C32: the lazy subscriber of each watch calls the getter when it runs: its
\* result is the source's value, the key the getter reads is tracked for it,
\* and a later write that changes the key invokes the callback.
C32_WatchSubscriberCallsGetter ==
    \A w \in {"wch", "wts"} : w \in created => SubscribedToSource(w)

(* ---------------------- nested and self-writing effects --------------- *)
\* the stack of effect functions has grown by at most one overflow
StackOK(s) == Len(s.effectStack) <= MaxDepth

\* effect(fn) at top level, fn the computation of out or of self
CreateSubscriber(e) ==
    /\ ~draining
    /\ e \notin created
    /\ LET s == effect(Cur, e)
       IN  StackOK(s) /\ Commit(s)
    /\ UNCHANGED draining

\* state.a = v at top level
WriteSource(v) ==
    /\ ~draining
    /\ LET s == proxySet(NoteWrite(Cur, "obj", "a", v), "obj", "a", v)
       IN  StackOK(s) /\ Commit(s)
    /\ UNCHANGED draining

\* state[k] at top level
ReadTop(k) ==
    /\ ~draining
    /\ Commit(proxyGet(Cur, "obj", k))
    /\ UNCHANGED draining

NextNest ==
    \/ \E e \in {"out", "self"} : CreateSubscriber(e)
    \/ \E v \in ObjVals : WriteSource(v)
    \/ \E k \in ObjKeys : ReadTop(k)

SpecNest == Init /\ [][NextNest]_vars

\* C33: a plain effect whose computation writes a key it has read is not
\* called again while it is executing, and running it ends without
\* exhausting the call stack.
C33_NoReentry == hist.reentered = {} /\ ~hist.overflow

\* C31: every tracked read is recorded for the innermost effect whose
\* computation is executing, and for none when no computation is executing.
C31_InnermostTracked == hist.misTracked = {}

(* ----------------------------- components ----------------------------- *)
\* the parent component is mounted, which mounts the child
MountParent == CreateEffect("par")

NextComp ==
    \/ MountParent
    \/ \E k \in ObjKeys, v \in ObjVals : Write(k, v)
    \/ \E v \in BoxVals : WriteRef(v)
    \/ RunFlushThen
    \/ RunFlushFinally

SpecComp == Init /\ [][NextComp]_vars

\* C13: a flush in which the parent's re-render changed declared props of the
\* mounted child runs the child's render function once, and leaves no
\* re-render of the child queued.
C13_OneChildRenderPerFlush ==
    (hist.pass.done /\ hist.propChanges >= 1) =>
        (hist.renders = 1 /\ "upd" \notin hist.owed)

\* C18: at every render, a read of a key through the render context returns
\* setupState[key], unwrapped if it is a boxed reference, else props[key], else
\* attrs[key], else undefined.
C18_ContextLookup == \A r \in hist.ctxReads : r.got = r.want

\* C19: after mount and after every update in place, instance.props holds
\* exactly the declared entries of the current vnode's props and instance.attrs
\* exactly the others.
C19_PropsPartition ==
    (inst.ctx # "null" /\ ~inst.hasNext) =>
        /\ \A k \in Declared : inst.props[k] = inst.vnode[k]
        /\ \A k \in AttrKeys : inst.attrs[k] = inst.vnode[k]


(***************************************************************************)
(* The keyed children diff of the renderer.  The children are elements of  *)
(* one type, told apart by their keys; the previous children are mounted   *)
(* in their order in a container that holds nothing else.  A host node is  *)
(* a record of the key of the vnode it was created for and of the list     *)
(* whose mount created it.  Indices are the code's, from 0.                *)
(***************************************************************************)
NullNode == [key |-> 0, gen |-> "null"]

Keys == 1 .. NumKeys

KeyedLists ==
    {l \in UNION {[1 .. n -> Keys] : n \in 1 .. MaxChildren} :
        \A a, b \in 1 .. Len(l) : l[a] = l[b] => a = b}

\* oldChildren[i].el: the node the previous mount created
oldEl(i) == [key |-> oldChildren[i + 1], gen |-> "prev"]

NoEl == [k \in 0 .. Len(newChildren) - 1 |-> NullNode]

DiffStart == [host |-> host, el |-> NoEl, ops |-> <<>>, threw |-> FALSE]

Throw(d) == [d EXCEPT !.threw = TRUE]

Without(h, node) == SelectSeq(h, LAMBDA x : x # node)

IndexOf(h, node) == CHOOSE a \in 1 .. Len(h) : h[a] = node

\* container.insertBefore(node, anchor): a null anchor appends, a node that
\* is already a child leaves its place first, and an anchor that is no child
\* of the container makes the DOM throw
insertBefore(d, node, anchor, op) ==
    LET h == Without(d.host, node)
        logged == Append(d.ops, [op |-> op, node |-> node])
    IN  IF anchor = NullNode
        THEN [d EXCEPT !.host = Append(h, node), !.ops = logged]
        ELSE IF anchor = node
        THEN [d EXCEPT !.ops = logged]
        ELSE IF ~InSeq(anchor, h)
        THEN Throw(d)
        ELSE LET a == IndexOf(h, anchor)
             IN  [d EXCEPT !.host = SubSeq(h, 1, a - 1) \o <<node>>
                                        \o SubSeq(h, a, Len(h)),
                           !.ops = logged]

\* patch(oldChildren[i], newChildren[k], ...) of two elements of one type:
\* the new vnode takes over the host node
patchElement(d, i, k) == [d EXCEPT !.el[k] = oldEl(i)]

\* patch(null, newChildren[k], container, anchor)
mountElement(d, k, anchor) ==
    LET node == [key |-> newChildren[k + 1], gen |-> "next"]
    IN  insertBefore([d EXCEPT !.el[k] = node], node, anchor, "mount")

\* unmount(oldChildren[i])
unmount(d, i) ==
    [d EXCEPT !.host = Without(@, oldEl(i)),
              !.ops = Append(@, [op |-> "unmount", node |-> oldEl(i)])]

\* nextPos < newChildren.length ? newChildren[nextPos].el : null
anchorAt(d, nextPos) ==
    IF nextPos < Len(newChildren) THEN d.el[nextPos] ELSE NullNode


\* the binary search of getSequence: the index the loop ends with
RECURSIVE search(_, _, _, _)
search(result, v, l, r) ==
    IF l > r
    THEN l
    ELSE LET mid == (l + r) \div 2
         IN  IF v > result[mid + 1]
             THEN search(result, v, mid + 1, r)
             ELSE IF v < result[mid + 1]
             THEN search(result, v, l, mid - 1)
             ELSE mid

\* the first loop of getSequence, from index i on
RECURSIVE scan(_, _, _, _)
scan(nums, i, result, position) ==
    IF i >= Len(nums)
    THEN [result |-> result, position |-> position]
    ELSE LET v == nums[i + 1]
         IN  IF v = -1
             THEN scan(nums, i + 1, result, position)
             ELSE IF result # <<>> /\ v > result[Len(result)]
             THEN scan(nums, i + 1, Append(result, v),
                       Append(position, Len(result)))
             ELSE LET l == search(result, v, 0, Len(result) - 1)
                      set == IF l = Len(result)
                             THEN Append(result, v)
                             ELSE [result EXCEPT ![l + 1] = v]
                  IN  scan(nums, i + 1, set, Append(position, l))

\* the second loop of getSequence
RECURSIVE backtrack(_, _, _, _)
backtrack(result, position, i, cur) ==
    IF i < 0 \/ cur < 0
    THEN result
    ELSE IF position[i + 1] = cur
    THEN backtrack([result EXCEPT ![cur + 1] = i], position, i - 1, cur - 1)
    ELSE backtrack(result, position, i - 1, cur)

getSequence(nums) ==
    LET s == scan(nums, 0, <<>>, <<>>)
    IN  backtrack(s.result, s.position, Len(s.position) - 1, Len(s.result) - 1)

\* the loop from the head: reading oldNode.key throws once j has run past
\* the previous children
RECURSIVE headLoop(_, _)
headLoop(d, j) ==
    IF j >= Len(oldChildren)
    THEN [d |-> Throw(d), j |-> j]
    ELSE IF j < Len(newChildren) /\ oldChildren[j + 1] = newChildren[j + 1]
    THEN headLoop(patchElement(d, j, j), j + 1)
    ELSE [d |-> d, j |-> j]

\* the loop from the tail: reading the key of a node before the first throws
RECURSIVE tailLoop(_, _, _)
tailLoop(d, oldEnd, newEnd) ==
    IF oldEnd < 0 \/ newEnd < 0
    THEN [d |-> Throw(d), oldEnd |-> oldEnd, newEnd |-> newEnd]
    ELSE IF oldChildren[oldEnd + 1] = newChildren[newEnd + 1]
    THEN tailLoop(patchElement(d, oldEnd, newEnd), oldEnd - 1, newEnd - 1)
    ELSE [d |-> d, oldEnd |-> oldEnd, newEnd |-> newEnd]

\* while (j <= newEnd) patch(null, newChildren[j++], container, anchor)
RECURSIVE mountRest(_, _, _, _)
mountRest(d, j, newEnd, anchor) ==
    IF j > newEnd \/ d.threw
    THEN d
    ELSE mountRest(mountElement(d, j, anchor), j + 1, newEnd, anchor)

\* while (j <= oldEnd) unmount(oldChildren[j++])
RECURSIVE unmountRest(_, _, _)
unmountRest(d, j, oldEnd) ==
    IF j > oldEnd THEN d ELSE unmountRest(unmount(d, j), j + 1, oldEnd)

\* the indices i of j .. newEnd with newChildren[i].key = key; the map
\* keeps the last one
keyIndex(j, newEnd, key) == {i \in j .. newEnd : newChildren[i + 1] = key}

Max(S) == CHOOSE x \in S : \A y \in S : y <= x

\* the loop over the previous children of the middle
RECURSIVE oldLoop(_, _, _, _, _)
oldLoop(m, i, j, oldEnd, newEnd) ==
    IF i > oldEnd
    THEN m
    ELSE LET count == newEnd - j + 1
             found == keyIndex(j, newEnd, oldChildren[i + 1])
         IN  IF m.patched < count /\ found # {}
             THEN LET k == Max(found)
                  IN  oldLoop([m EXCEPT !.d = patchElement(@, i, k),
                                        !.patched = @ + 1,
                                        !.souce[k - j + 1] = i,
                                        !.moved = @ \/ k < m.pos,
                                        !.pos = IF k < @ THEN @ ELSE k],
                              i + 1, j, oldEnd, newEnd)
             ELSE oldLoop([m EXCEPT !.d = unmount(@, i)],
                          i + 1, j, oldEnd, newEnd)

\* the loop that mounts and moves, from the last node of the middle
RECURSIVE placeLoop(_, _, _, _, _, _)
placeLoop(d, souce, seq, i, s, j) ==
    IF i < 0 \/ d.threw
    THEN d
    ELSE IF souce[i + 1] = -1
    THEN placeLoop(mountElement(d, i + j, anchorAt(d, i + j + 1)),
                   souce, seq, i - 1, s, j)
    ELSE IF s < 0 \/ i # seq[s + 1]
    THEN placeLoop(insertBefore(d, d.el[i + j], anchorAt(d, i + j + 1), "move"),
                   souce, seq, i - 1, s, j)
    ELSE placeLoop(d, souce, seq, i - 1, s - 1, j)

\* the diff of oldChildren against newChildren; new Array(count) throws for
\* a negative count
patchKeyedChildren ==
    LET head == headLoop(DiffStart, 0)
        tail == tailLoop(head.d, Len(oldChildren) - 1, Len(newChildren) - 1)
        j == head.j
        oldEnd == tail.oldEnd
        newEnd == tail.newEnd
        count == newEnd - j + 1
        m == oldLoop([d |-> tail.d, souce |-> [a \in 1 .. count |-> -1],
                      patched |-> 0, pos |-> 0, moved |-> FALSE],
                     j, j, oldEnd, newEnd)
    IN  IF head.d.threw THEN head.d
        ELSE IF tail.d.threw THEN tail.d
        ELSE IF j <= newEnd /\ j > oldEnd
        THEN mountRest(tail.d, j, newEnd, anchorAt(tail.d, newEnd + 1))
        ELSE IF j > newEnd /\ j <= oldEnd
        THEN unmountRest(tail.d, j, oldEnd)
        ELSE IF count < 0
        THEN Throw(tail.d)
        ELSE IF m.moved
        THEN placeLoop(m.d, m.souce, getSequence(m.souce), count - 1,
                       Len(getSequence(m.souce)) - 1, j)
        ELSE m.d

\* the children of an element are mounted in order, then diffed once
InitDiff ==
    /\ oldChildren \in KeyedLists
    /\ newChildren \in KeyedLists
    /\ host = [a \in 1 .. Len(oldChildren) |-> oldEl(a - 1)]
    /\ el = <<>>
    /\ ops = <<>>
    /\ phase = "mounted"
    /\ textContent = <<>>
    /\ InitNoVnode
    /\ InitNoSequence
    /\ store = [k \in ObjKeys |-> "x"]
    /\ InitReactive

\* patchChildren of two lists of keyed children
PatchChildren ==
    /\ phase = "mounted"
    /\ LET d == patchKeyedChildren
       IN  /\ host' = d.host
           /\ el' = d.el
           /\ ops' = d.ops
           /\ phase' = IF d.threw THEN "threw" ELSE "patched"
    /\ UNCHANGED <<oldChildren, newChildren, textContent, preVnode, newVnode, diff,
                   seqInput, seqResult, prevHost>>
    /\ UNCHANGED rvars

NextDiff == PatchChildren

SpecDiff == InitDiff /\ [][NextDiff]_vars


\* the host nodes the next children stand for, in their order: the node of
\* the previous child with the same key, else a node mounted for it
expectedHost ==
    [a \in 1 .. Len(newChildren) |->
        [key |-> newChildren[a],
         gen |-> IF InSeq(newChildren[a], oldChildren) THEN "prev" ELSE "next"]]

OpNodes(op) == {ops[a].node : a \in {b \in 1 .. Len(ops) : ops[b].op = op}}

\* C5: after the keyed diff of any previous list against any next list with
\* distinct keys, the container holds exactly the next children's host nodes
\* in the next order: a key in both lists keeps its host node, a key only in
\* the previous list has its node unmounted, a key only in the next list has
\* a node mounted.
C5_KeyedDiffCorrect ==
    phase # "mounted" =>
        /\ phase = "patched"
        /\ host = expectedHost
        /\ OpNodes("unmount") =
               {oldEl(a - 1) : a \in {b \in 1 .. Len(oldChildren) :
                                         ~InSeq(oldChildren[b], newChildren)}}
        /\ OpNodes("mount") =
               {expectedHost[a] : a \in {b \in 1 .. Len(newChildren) :
                                            ~InSeq(newChildren[b], oldChildren)}}

\* the previous children are the next children less one run of them (pure
\* insertion), or the next children are the previous children less one run
\* of them (pure removal): what the matching of equal keys from the head and
\* then from the tail leaves over lies in one list only
OneRunLess(short, long) ==
    /\ Len(short) < Len(long)
    /\ \E p \in 0 .. Len(short) :
          short = SubSeq(long, 1, p)
                    \o SubSeq(long, Len(long) - (Len(short) - p) + 1, Len(long))

\* C25: in the keyed diff, a pure insertion (at the front, inside or at the
\* end) mounts exactly the unmatched next nodes, each before the host node
\* of its next sibling; a pure removal (from the front, inside or from the
\* end) unmounts exactly the unmatched previous nodes; in both cases the
\* diff completes, does nothing else, and every matched node keeps its host
\* node and relative position.
C25_PureInsertOrRemove ==
    (phase # "mounted" /\ (OneRunLess(oldChildren, newChildren)
                             \/ OneRunLess(newChildren, oldChildren))) =>
        /\ phase = "patched"
        /\ host = expectedHost
        /\ OpNodes("move") = {}
        /\ OpNodes("unmount") =
               {oldEl(a - 1) : a \in {b \in 1 .. Len(oldChildren) :
                                         ~InSeq(oldChildren[b], newChildren)}}
        /\ OpNodes("mount") =
               {expectedHost[a] : a \in {b \in 1 .. Len(newChildren) :
                                            ~InSeq(newChildren[b], oldChildren)}}

\* the previous positions of the next children that have a previous child
PrevPositions ==
    LET kept == SelectSeq(newChildren, LAMBDA k : InSeq(k, oldChildren))
    IN  [a \in 1 .. Len(kept) |->
            CHOOSE b \in 1 .. Len(oldChildren) : oldChildren[b] = kept[a]]

Increasing(q, S) == \A a, b \in S : a < b => q[a] < q[b]

\* the length of a longest increasing subsequence of q
LISLength(q) ==
    Max({Cardinality(S) : S \in {T \in SUBSET (1 .. Len(q)) : Increasing(q, T)}})

\* C6: a diff that completes moves as many mounted host nodes as there are
\* kept nodes less the length of a longest increasing subsequence of their
\* previous positions, and each node at most once.
C6_MinimumMoves ==
    phase = "patched" =>
        /\ Cardinality(OpNodes("move")) =
               Len(PrevPositions) - LISLength(PrevPositions)
        /\ Cardinality({a \in 1 .. Len(ops) : ops[a].op = "move"}) =
               Cardinality(OpNodes("move"))

\* C7: the keyed diff of a list against a list with the same keys in the
\* same order completes and does no host operation.
C7_KeyedDiffIdempotent ==
    (phase # "mounted" /\ oldChildren = newChildren) =>
        /\ phase = "patched"
        /\ ops = <<>>
        /\ host = expectedHost


(***************************************************************************)
(* getSequence on its own: any array of the values -1 and 0 .. MaxSeqVal.  *)
(***************************************************************************)
SequenceInputs ==
    UNION {[1 .. n -> -1 .. MaxSeqVal] : n \in 0 .. MaxSeqLen}

InitSequence ==
    /\ seqInput \in SequenceInputs
    /\ seqResult = <<>>
    /\ prevHost = <<>>
    /\ oldChildren = <<>>
    /\ newChildren = <<>>
    /\ host = <<>>
    /\ el = <<>>
    /\ ops = <<>>
    /\ phase = "input"
    /\ textContent = <<>>
    /\ InitNoVnode
    /\ store = [k \in ObjKeys |-> "x"]
    /\ InitReactive

\* const seq = getSequence(souce)
GetSequence ==
    /\ phase = "input"
    /\ seqResult' = getSequence(seqInput)
    /\ phase' = "returned"
    /\ UNCHANGED <<oldChildren, newChildren, host, el, ops, textContent, preVnode,
                   newVnode, diff, seqInput, prevHost>>
    /\ UNCHANGED rvars

NextSequence == GetSequence

SpecSequence == InitSequence /\ [][NextSequence]_vars

\* the index lists (from 0) into q, in order, whose values are no sentinels
\* and strictly increasing
IncreasingIndexLists(q) ==
    {T \in SUBSET (0 .. Len(q) - 1) :
        /\ \A a \in T : q[a + 1] # -1
        /\ \A a, b \in T : a < b => q[a + 1] < q[b + 1]}

\* C28: for every integer array with -1 sentinels, getSequence returns a
\* strictly increasing list of indices into the array, the values at these
\* indices are no sentinels and strictly increasing, and no longer list of
\* such indices exists.
C28_LongestIncreasing ==
    phase = "returned" =>
        /\ \A a \in 1 .. Len(seqResult) : seqResult[a] \in 0 .. Len(seqInput) - 1
        /\ \A a, b \in 1 .. Len(seqResult) : a < b => seqResult[a] < seqResult[b]
        /\ Range(seqResult) \in IncreasingIndexLists(seqInput)
        /\ \A T \in IncreasingIndexLists(seqInput) : Cardinality(T) <= Len(seqResult)


(***************************************************************************)
(* The unkeyed children diff of the renderer.  A child is an element with  *)
(* a tag and a text child; the previous children are mounted in order in   *)
(* the container, and the container may hold one more node after them,     *)
(* which is then the anchor given to the diff.  A host node is a record of *)
(* the index of the vnode it was created for (in "key") and of the list    *)
(* whose mount created it.                                                 *)
(***************************************************************************)
Tags == {"div", "span"}

Texts == {"s", "t"}

UnkeyedLists ==
    UNION {[1 .. n -> [type : Tags, children : Texts]] : n \in 0 .. MaxUnkeyed}

AnchorNode == [key |-> 0, gen |-> "anchor"]

\* oldChildren[i].el
prevEl(i) == [key |-> i, gen |-> "prev"]

\* the node document.createElement makes for newChildren[k]
nextEl(k) == [key |-> k, gen |-> "next"]

HostNodes == {[key |-> i, gen |-> g] : i \in 0 .. MaxUnkeyed - 1, g \in {"prev", "next"}}

\* el.tagName
tagName(node) ==
    IF node.gen = "prev"
    THEN oldChildren[node.key + 1].type
    ELSE newChildren[node.key + 1].type

UnkeyedStart ==
    [host |-> host, el |-> NoEl, ops |-> <<>>, threw |-> FALSE,
     text |-> textContent]

\* node.nextSibling
nextSibling(d, node) ==
    LET a == IndexOf(d.host, node)
    IN  IF a < Len(d.host) THEN d.host[a + 1] ELSE NullNode

\* el.parentNode.removeChild(el)
removeChild(d, node) ==
    [d EXCEPT !.host = Without(@, node),
              !.ops = Append(@, [op |-> "unmount", node |-> node])]

isSameComponent(i, k) == oldChildren[i + 1].type = newChildren[k + 1].type

\* processElement(preVnode, newVnode, container, anchor) with preVnode the
\* previous child i, or null (i = -1): mountElement sets the text and
\* inserts the new node; patchElement takes the node over and patchChildren
\* writes the text when it differs
processElement(d, i, k, anchor) ==
    IF i = -1
    THEN insertBefore([d EXCEPT !.el[k] = nextEl(k),
                                !.text[nextEl(k)] = newChildren[k + 1].children],
                      nextEl(k), anchor, "mount")
    ELSE LET d1 == [d EXCEPT !.el[k] = prevEl(i),
                             !.ops = Append(@, [op |-> "patch", node |-> prevEl(i)])]
         IN  IF newChildren[k + 1].children # oldChildren[i + 1].children
             THEN [d1 EXCEPT !.text[prevEl(i)] = newChildren[k + 1].children]
             ELSE d1

\* patch without the anchor taken from the node that is replaced
patch_GivenAnchor(d, i, k, anchor) ==
    IF i # -1 /\ ~isSameComponent(i, k)
    THEN processElement(removeChild(d, prevEl(i)), -1, k, anchor)
    ELSE processElement(d, i, k, anchor)

\* patch(preVnode, newVnode, container, anchor)
patch(d, i, k, anchor) ==
    IF i # -1 /\ ~isSameComponent(i, k)
    THEN processElement(removeChild(d, prevEl(i)), -1, k,
                        nextSibling(d, prevEl(i)))
    ELSE processElement(d, i, k, anchor)

\* for (let i = 0; i < commonLength; i++) patch(oldChildren[i], newChildren[i], ...)
RECURSIVE patchLoop(_, _, _, _)
patchLoop(d, i, commonLength, anchor) ==
    IF i >= commonLength
    THEN d
    ELSE patchLoop(patch(d, i, i, anchor), i + 1, commonLength, anchor)

\* unmountChildren(oldChildren.slice(i))
RECURSIVE unmountChildren(_, _)
unmountChildren(d, i) ==
    IF i >= Len(oldChildren)
    THEN d
    ELSE unmountChildren(removeChild(d, prevEl(i)), i + 1)

\* mountChildren(newChildren.slice(k), container, anchor)
RECURSIVE mountChildren(_, _, _)
mountChildren(d, k, anchor) ==
    IF k >= Len(newChildren)
    THEN d
    ELSE mountChildren(patch(d, -1, k, anchor), k + 1, anchor)

patchUnkeyedChildren(anchor) ==
    LET oldLength == Len(oldChildren)
        newLength == Len(newChildren)
        commonLength == Min(oldLength, newLength)
        d == patchLoop(UnkeyedStart, 0, commonLength, anchor)
    IN  IF oldLength > newLength
        THEN unmountChildren(d, commonLength)
        ELSE IF oldLength < newLength
        THEN mountChildren(d, commonLength, anchor)
        ELSE d

\* the nodes the container holds after the children
tail == SelectSeq(host, LAMBDA x : x = AnchorNode)

\* the previous children are mounted in order, with or without a node
\* after them
InitUnkeyed ==
    /\ oldChildren \in UnkeyedLists
    /\ newChildren \in UnkeyedLists
    /\ \E after \in {<<>>, <<AnchorNode>>} :
          host = [a \in 1 .. Len(oldChildren) |-> prevEl(a - 1)] \o after
    /\ el = <<>>
    /\ ops = <<>>
    /\ phase = "mounted"
    /\ textContent = [node \in HostNodes |->
                         IF node.gen = "prev" /\ node.key < Len(oldChildren)
                         THEN oldChildren[node.key + 1].children
                         ELSE "none"]
    /\ InitNoVnode
    /\ InitNoSequence
    /\ store = [k \in ObjKeys |-> "x"]
    /\ InitReactive

\* patchChildren of two lists of children without keys: the anchor is the
\* node after the children, or null
PatchUnkeyed ==
    /\ phase = "mounted"
    /\ LET d == patchUnkeyedChildren(IF tail = <<>> THEN NullNode ELSE AnchorNode)
       IN  /\ host' = d.host
           /\ el' = d.el
           /\ ops' = d.ops
           /\ textContent' = d.text
           /\ phase' = IF d.threw THEN "threw" ELSE "patched"
    /\ UNCHANGED <<oldChildren, newChildren, preVnode, newVnode, diff, seqInput, seqResult, prevHost>>
    /\ UNCHANGED rvars

NextUnkeyed == PatchUnkeyed

SpecUnkeyed == InitUnkeyed /\ [][NextUnkeyed]_vars


\* the nodes on which the diff did the host operation op, in order
OpsOn(op) == SelectSeq(ops, LAMBDA o : o.op = op)

\* C20: the unkeyed diff of m previous children against n next children
\* patches the first min(m,n) pairs by index in place (a pair of one tag
\* keeps its node, a pair of two tags gets a new node at the same place),
\* unmounts exactly the m-n surplus previous children, each once, when
\* m > n, mounts exactly the n-m surplus next children before the given
\* anchor when n > m, and leaves the container holding the next children in
\* order, with their tags and texts, followed by what followed before.
C20_UnkeyedDiff ==
    phase # "mounted" =>
        LET m == Len(oldChildren)
            n == Len(newChildren)
            common == Min(m, n)
        IN  /\ phase = "patched"
            /\ host = [a \in 1 .. n |-> el[a - 1]] \o tail
            /\ \A k \in 0 .. n - 1 :
                  /\ tagName(el[k]) = newChildren[k + 1].type
                  /\ textContent[el[k]] = newChildren[k + 1].children
            /\ \A k \in 0 .. common - 1 :
                  IF isSameComponent(k, k)
                  THEN /\ el[k] = prevEl(k)
                       /\ ~\E a \in 1 .. Len(ops) :
                             /\ ops[a].op # "patch"
                             /\ ops[a].node \in {prevEl(k), nextEl(k)}
                  ELSE /\ el[k] = nextEl(k)
                       /\ Count([op |-> "unmount", node |-> prevEl(k)], ops) = 1
                       /\ Count([op |-> "mount", node |-> nextEl(k)], ops) = 1
            /\ \A i \in common .. MaxUnkeyed :
                  /\ Count([op |-> "unmount", node |-> prevEl(i)], ops)
                        = (IF i < m THEN 1 ELSE 0)
                  /\ Count([op |-> "mount", node |-> nextEl(i)], ops)
                        = (IF i < n THEN 1 ELSE 0)

\* three previous children against one next child of the same tag, with a
\* node after the children: index 0 is patched in place and two nodes are
\* unmounted
C20_Witness ==
    /\ phase = "patched"
    /\ Len(oldChildren) = 3
    /\ Len(newChildren) = 1
    /\ el[0] = prevEl(0)
    /\ textContent[prevEl(0)] # oldChildren[1].children
    /\ Len(OpsOn("unmount")) = 2
    /\ host = <<prevEl(0), AnchorNode>>


(***************************************************************************)
(* patchChildren of two vnodes of one element.  The array children are     *)
(* elements of one tag and one text, told apart by their keys only.  A key *)
(* is null (no key given), the number 0, the empty string, or one of two   *)
(* other values; the keys of the children are in preVnode and newVnode,    *)
(* and oldChildren and newChildren hold the children as the diff that runs *)
(* reads them.  The container holds the previous children and nothing      *)
(* else.                                                                   *)
(***************************************************************************)
KeyVals == {"null", "0", "''", "1", "2"}

\* the truth value of a key in a condition
truthy(key) == key \notin {"null", "0", "''"}

\* h(type, props, children): the key is props.key unless that is null or
\* undefined; the children of a list have no keys, or distinct keys
KeyLists ==
    {l \in UNION {[1 .. n -> KeyVals] : n \in 0 .. MaxUnkeyed} :
        \/ \A a \in 1 .. Len(l) : l[a] = "null"
        \/ /\ \A a \in 1 .. Len(l) : l[a] # "null"
           /\ \A a, b \in 1 .. Len(l) : l[a] = l[b] => a = b}

\* the children of a vnode: an array of elements with these keys, a string,
\* or null
Vnodes ==
    {[shapeFlag |-> "ARRAY_CHILDREN", children |-> "array", keys |-> l] :
        l \in KeyLists}
      \cup {[shapeFlag |-> "TEXT_CHILDREN", children |-> x, keys |-> <<>>] :
              x \in Texts}
      \cup {[shapeFlag |-> "0", children |-> "null", keys |-> <<>>]}

ContainerNode == [key |-> 0, gen |-> "container"]

\* oldChildren[0] && oldChildren[0].key && newChildren[0] && newChildren[0].key
firstKeys ==
    /\ Len(preVnode.keys) > 0
    /\ truthy(preVnode.keys[1])
    /\ Len(newVnode.keys) > 0
    /\ truthy(newVnode.keys[1])

\* the children with these keys as the keyed diff reads them, a number for
\* each key, or as the unkeyed diff reads them, a tag and a text
childrenOf(keys) ==
    IF preVnode.shapeFlag = "ARRAY_CHILDREN" /\ newVnode.shapeFlag = "ARRAY_CHILDREN"
       /\ firstKeys
    THEN [a \in 1 .. Len(keys) |->
             CASE keys[a] = "1" -> 1 [] keys[a] = "2" -> 2
               [] keys[a] = "0" -> 3 [] keys[a] = "''" -> 4]
    ELSE [a \in 1 .. Len(keys) |-> [type |-> "div", children |-> "s"]]

\* container.textContent = text: the children of the container go
setTextContent(d, text) ==
    [d EXCEPT !.host = <<>>, !.text[ContainerNode] = text]

\* patchChildren(preVnode, newVnode, container, anchor); unmountChildren(null)
\* throws
patchChildren(anchor) ==
    LET start == [UnkeyedStart EXCEPT !.el = <<>>]
        keyed(k) == [host |-> k.host, el |-> k.el, ops |-> k.ops, threw |-> k.threw,
                     text |-> textContent, diff |-> "keyed"]
        unkeyed(u) == [host |-> u.host, el |-> u.el, ops |-> u.ops, threw |-> u.threw,
                       text |-> u.text, diff |-> "unkeyed"]
        other(u) == [host |-> u.host, el |-> u.el, ops |-> u.ops, threw |-> u.threw,
                     text |-> u.text, diff |-> "none"]
    IN  IF newVnode.shapeFlag = "TEXT_CHILDREN"
        THEN LET d == IF preVnode.shapeFlag = "ARRAY_CHILDREN"
                      THEN unmountChildren(start, 0)
                      ELSE start
             IN  IF newVnode.children # preVnode.children
                 THEN other(setTextContent(d, newVnode.children))
                 ELSE other(d)
        ELSE IF newVnode.shapeFlag = "ARRAY_CHILDREN"
        THEN IF preVnode.shapeFlag = "ARRAY_CHILDREN"
             THEN IF firstKeys
                  THEN keyed(patchKeyedChildren)
                  ELSE unkeyed(patchUnkeyedChildren(anchor))
             ELSE other(mountChildren([setTextContent(start, "") EXCEPT !.el = NoEl],
                                      0, anchor))
        ELSE IF preVnode.shapeFlag = "ARRAY_CHILDREN"
        THEN other(Throw(start))
        ELSE other(setTextContent(start, ""))

\* the previous vnode is mounted; the host node of a previous child bears
\* the name the diff that is to run gives it
InitChildren ==
    /\ preVnode \in Vnodes
    /\ newVnode \in Vnodes
    /\ oldChildren = childrenOf(preVnode.keys)
    /\ newChildren = childrenOf(newVnode.keys)
    /\ host = [a \in 1 .. Len(oldChildren) |->
                  IF newVnode.shapeFlag = "ARRAY_CHILDREN" /\ firstKeys
                  THEN oldEl(a - 1) ELSE prevEl(a - 1)]
    /\ el = <<>>
    /\ ops = <<>>
    /\ phase = "mounted"
    /\ diff = "none"
    /\ textContent = [node \in HostNodes \cup {ContainerNode} |->
                         IF node = ContainerNode
                         THEN IF preVnode.shapeFlag = "TEXT_CHILDREN"
                              THEN preVnode.children ELSE ""
                         ELSE IF node.gen = "prev" /\ node.key < Len(oldChildren)
                         THEN "s"
                         ELSE "none"]
    /\ InitNoSequence
    /\ store = [k \in ObjKeys |-> "x"]
    /\ InitReactive

\* patchElement patches the children of the two vnodes
PatchVnodes ==
    /\ phase = "mounted"
    /\ LET d == patchChildren(NullNode)
       IN  /\ host' = d.host
           /\ el' = d.el
           /\ ops' = d.ops
           /\ textContent' = d.text
           /\ diff' = d.diff
           /\ phase' = IF d.threw THEN "threw" ELSE "patched"
    /\ UNCHANGED <<oldChildren, newChildren, preVnode, newVnode, seqInput, seqResult, prevHost>>
    /\ UNCHANGED rvars

NextChildren == PatchVnodes

SpecChildren == InitChildren /\ [][NextChildren]_vars

\* C26: patching a node whose previous children were an array to a next
\* node with no children completes, unmounts every previous child and
\* leaves the container without child content.
C26_ChildrenRemoved ==
    (phase # "mounted" /\ preVnode.shapeFlag = "ARRAY_CHILDREN"
                       /\ newVnode.shapeFlag = "0") =>
        /\ phase = "patched"
        /\ host = <<>>
        /\ textContent[ContainerNode] = ""
        /\ \A i \in 0 .. Len(oldChildren) - 1 :
              Count([op |-> "unmount", node |-> prevEl(i)], ops) = 1

\* C27: when both previous and next children are arrays, the keyed diff is
\* chosen exactly when the first previous child and the first next child
\* both carry a non-null key, whatever the key (0 and the empty string
\* included); otherwise the unkeyed diff is used.
C27_KeyedChoice ==
    (phase # "mounted" /\ preVnode.shapeFlag = "ARRAY_CHILDREN"
                       /\ newVnode.shapeFlag = "ARRAY_CHILDREN") =>
        IF /\ Len(preVnode.keys) > 0 /\ preVnode.keys[1] # "null"
           /\ Len(newVnode.keys) > 0 /\ newVnode.keys[1] # "null"
        THEN diff = "keyed"
        ELSE diff = "unkeyed"


(***************************************************************************)
(* A fragment with array children in a container that may hold one node    *)
(* before the fragment and one node after it.  The fragment is mounted:    *)
(* its start marker, its children in order and its end marker; it is then  *)
(* patched once against a fragment with the next children, and unmounted.  *)
(***************************************************************************)
FragmentStart == [key |-> 0, gen |-> "start"]

FragmentEnd == [key |-> 0, gen |-> "end"]

BeforeNode == [key |-> 0, gen |-> "before"]

Fragments == {v \in Vnodes : v.shapeFlag = "ARRAY_CHILDREN"}

\* processFragment(null, vnode, container, anchor) has run: the two markers
\* are inserted before the anchor and the children before the end marker
InitFragment ==
    /\ preVnode \in Fragments
    /\ newVnode \in Fragments
    /\ oldChildren = childrenOf(preVnode.keys)
    /\ newChildren = childrenOf(newVnode.keys)
    /\ \E before \in {<<>>, <<BeforeNode>>}, after \in {<<>>, <<AnchorNode>>} :
          host = before \o <<FragmentStart>>
                   \o [a \in 1 .. Len(oldChildren) |->
                          IF firstKeys THEN oldEl(a - 1) ELSE prevEl(a - 1)]
                   \o <<FragmentEnd>> \o after
    /\ el = <<>>
    /\ ops = <<>>
    /\ phase = "mounted"
    /\ diff = "none"
    /\ textContent = [node \in HostNodes \cup {ContainerNode} |->
                         IF node # ContainerNode /\ node.gen = "prev"
                            /\ node.key < Len(oldChildren)
                         THEN "s"
                         ELSE "none"]
    /\ InitNoSequence
    /\ store = [k \in ObjKeys |-> "x"]
    /\ InitReactive

\* processFragment(preVnode, newVnode, container, anchor) with a previous
\* fragment: the markers are taken over and the children are patched with
\* the end marker as their anchor
processFragment == patchChildren(FragmentEnd)

\* a loop that stops at the end marker and leaves it in the container
RECURSIVE unmountLoop_KeepEnd(_, _)
unmountLoop_KeepEnd(d, cur) ==
    IF cur = NullNode
    THEN Throw(d)
    ELSE IF cur = FragmentEnd
    THEN d
    ELSE unmountLoop_KeepEnd(removeChild(d, cur), nextSibling(d, cur))

\* unmountFragment from the node cur on: the loop removes the nodes up to
\* the end marker, and the end marker is removed last; reading nextSibling
\* of null throws
RECURSIVE unmountLoop(_, _)
unmountLoop(d, cur) ==
    IF cur = NullNode
    THEN Throw(d)
    ELSE IF cur = FragmentEnd
    THEN removeChild(d, FragmentEnd)
    ELSE unmountLoop(removeChild(d, cur), nextSibling(d, cur))

unmountFragment == unmountLoop([UnkeyedStart EXCEPT !.el = el], FragmentStart)

\* patch of the mounted fragment against the next one
PatchFragment ==
    /\ phase = "mounted"
    /\ LET d == processFragment
       IN  /\ host' = d.host
           /\ el' = d.el
           /\ ops' = d.ops
           /\ textContent' = d.text
           /\ diff' = d.diff
           /\ phase' = IF d.threw THEN "threw" ELSE "patched"
    /\ UNCHANGED <<oldChildren, newChildren, preVnode, newVnode, seqInput, seqResult,
                   prevHost>>
    /\ UNCHANGED rvars

\* unmount of the fragment, as mounted or as patched
UnmountFragment ==
    /\ phase \in {"mounted", "patched"}
    /\ LET d == unmountFragment
       IN  /\ host' = d.host
           /\ ops' = d.ops
           /\ phase' = IF d.threw THEN "unmount threw" ELSE "unmounted"
    /\ prevHost' = host
    /\ UNCHANGED <<oldChildren, newChildren, el, textContent, preVnode, newVnode, diff,
                   seqInput, seqResult>>
    /\ UNCHANGED rvars

NextFragment == PatchFragment \/ UnmountFragment

SpecFragment == InitFragment /\ [][NextFragment]_vars

\* C21: the unmount of a mounted fragment completes and removes its start
\* marker, its end marker and every host node between them, each once, and
\* no host node outside that span.
C21_FragmentSpanRemoved ==
    /\ phase # "unmount threw"
    /\ phase = "unmounted" =>
          LET a == IndexOf(prevHost, FragmentStart)
              b == IndexOf(prevHost, FragmentEnd)
              removed == SubSeq(ops, Len(ops) - (b - a), Len(ops))
          IN  /\ a < b
              /\ host = SubSeq(prevHost, 1, a - 1) \o SubSeq(prevHost, b + 1, Len(prevHost))
              /\ removed = [c \in 1 .. b - a + 1 |->
                               [op |-> "unmount", node |-> prevHost[a + c - 1]]]

\* a fragment with two children, between two other nodes of the container,
\* has been patched by the unkeyed diff and then unmounted: the two other
\* nodes are what is left
C21_Witness ==
    /\ phase = "unmounted"
    /\ diff = "unkeyed"
    /\ Len(newChildren) = 2
    /\ Len(prevHost) = 6
    /\ host = <<BeforeNode, AnchorNode>>

\* C29: after the mount of a fragment and after a patch of it that
\* completes, every host node of its children lies between its start marker
\* and its end marker.
C29_ChildrenBetweenMarkers ==
    phase \in {"mounted", "patched"} =>
        \A a \in 1 .. Len(host) :
            host[a].gen \in {"prev", "next"} =>
                /\ IndexOf(host, FragmentStart) < a
                /\ a < IndexOf(host, FragmentEnd)


(***************************************************************************)
(* patch(preVnode, newVnode, container) with vnodes of different types:    *)
(* the previous vnode is unmounted and the next one is mounted at the      *)
(* anchor read from the previous vnode before the unmount.  The previous   *)
(* vnode is an element, a text node, a fragment or a component with one of *)
(* the three as its rendered subtree; the container may hold one node      *)
(* before it and one node after it.                                        *)
(***************************************************************************)
NextStart == [key |-> 0, gen |-> "next start"]

NextEnd == [key |-> 0, gen |-> "next end"]

Sizes == 0 .. MaxUnkeyed - 1

\* the vnodes h and normalizeVNode build: type, number of array children of
\* a fragment, and for a component the vnode its render function returned
PlainVnodes ==
    {[type |-> ty, size |-> 0, subTree |-> "none"] : ty \in {"div", "Text"}}
      \cup {[type |-> "Fragment", size |-> n, subTree |-> "none"] : n \in Sizes}

ComponentVnodes ==
    {[type |-> "Comp", size |-> v.size, subTree |-> v.type] : v \in PlainVnodes}

\* instance.subTree of a component vnode, the vnode itself otherwise
subTree(v) ==
    IF v.type = "Comp" THEN [type |-> v.subTree, size |-> v.size, subTree |-> "none"] ELSE v

\* the host nodes a mounted vnode owns, in order; gen tells the nodes of the
\* previous vnode from those of the next
hostNodesOf(v, gen, first, last) ==
    IF subTree(v).type = "Fragment"
    THEN <<first>> \o [a \in 1 .. v.size |-> [key |-> a - 1, gen |-> gen]] \o <<last>>
    ELSE <<[key |-> 0, gen |-> gen]>>

\* vnode.el: the element, the text node, the start marker of a fragment;
\* mountComponent copies subTree.el to the component vnode
elOf(v) == IF subTree(v).type = "Fragment" THEN FragmentStart ELSE prevEl(0)

\* vnode.anchor: the end marker of a fragment, null for every other vnode,
\* a component vnode included
anchorOf(v) == IF v.type = "Fragment" THEN FragmentEnd ELSE NullNode

InitReplace ==
    /\ preVnode \in PlainVnodes \cup ComponentVnodes
    /\ newVnode \in PlainVnodes
    /\ preVnode.type # newVnode.type
    /\ \E before \in {<<>>, <<BeforeNode>>}, after \in {<<>>, <<AnchorNode>>} :
          host = before \o hostNodesOf(preVnode, "prev", FragmentStart, FragmentEnd)
                   \o after
    /\ oldChildren = <<>>
    /\ newChildren = <<>>
    /\ el = <<>>
    /\ ops = <<>>
    /\ phase = "mounted"
    /\ diff = "none"
    /\ textContent = [node \in HostNodes |-> "none"]
    /\ InitNoSequence
    /\ store = [k \in ObjKeys |-> "x"]
    /\ InitReactive

\* unmount(vnode): a component unmounts its subtree, a fragment its span,
\* anything else its one host node
unmountVnode(d, v) ==
    IF subTree(v).type = "Fragment"
    THEN unmountLoop(d, FragmentStart)
    ELSE removeChild(d, prevEl(0))

\* the insertions of one mount in order; a throwing insertion ends the mount
RECURSIVE insertAll(_, _, _)
insertAll(d, nodes, anchor) ==
    IF d.threw \/ nodes = <<>>
    THEN d
    ELSE insertAll(insertBefore(d, Head(nodes), anchor, "mount"), Tail(nodes), anchor)

\* processElement, processText and processFragment without a previous vnode:
\* an element or text node is inserted before the anchor; a fragment inserts
\* its two markers before the anchor and its children before its end marker
mountVnode(d, v, anchor) ==
    IF v.type = "Fragment"
    THEN insertAll(insertAll(d, <<NextStart, NextEnd>>, anchor),
                   [a \in 1 .. v.size |-> nextEl(a - 1)], NextEnd)
    ELSE insertBefore(d, nextEl(0), anchor, "mount")

\* anchor = (preVnode.anchor || preVnode.el).nextSibling
anchorOfPatch(d) ==
    nextSibling(d, IF anchorOf(preVnode) # NullNode THEN anchorOf(preVnode)
                   ELSE elOf(preVnode))

\* patch with vnodes of different types
patchVnode ==
    LET start == [UnkeyedStart EXCEPT !.el = <<>>]
    IN  mountVnode(unmountVnode(start, preVnode), newVnode, anchorOfPatch(start))

PatchReplace ==
    /\ phase = "mounted"
    /\ LET d == patchVnode
       IN  /\ host' = d.host
           /\ ops' = d.ops
           /\ phase' = IF d.threw THEN "threw" ELSE "patched"
    /\ prevHost' = host
    /\ UNCHANGED <<oldChildren, newChildren, el, textContent, preVnode, newVnode, diff,
                   seqInput, seqResult>>
    /\ UNCHANGED rvars

NextReplace == PatchReplace

SpecReplace == InitReplace /\ [][NextReplace]_vars

\* C22: a patch with vnodes of different types completes, removes every
\* host node of the previous vnode and leaves the host nodes of the next
\* vnode where the previous ones were, whatever the previous vnode is.
C22_ReplacedInPlace ==
    phase # "mounted" =>
        LET old == hostNodesOf(preVnode, "prev", FragmentStart, FragmentEnd)
            a == IndexOf(prevHost, Head(old))
        IN  /\ phase = "patched"
            /\ host = SubSeq(prevHost, 1, a - 1)
                        \o hostNodesOf(newVnode, "next", NextStart, NextEnd)
                        \o SubSeq(prevHost, a + Len(old), Len(prevHost))


(***************************************************************************)
(* A component mounted at the top level of a container and unmounted:      *)
(* render(h(Child, props), container), then render(null, container), with  *)
(* writes of the boxed reference the component's render function reads     *)
(* and the flushes they start.                                             *)
(***************************************************************************)
\* render(vnode, container) with the child's vnode and no previous vnode:
\* mountComponent creates the render effect, whose first run renders and
\* inserts the subtree's element
MountChild ==
    /\ ~draining
    /\ phase = "none"
    /\ LET s == mountComponent(Cur, childProps(Cur))
       IN  TrigOK(s) /\ CommitReactive(s)
    /\ host' = Append(host, prevEl(0))
    /\ ops' = Append(ops, [op |-> "mount", node |-> prevEl(0)])
    /\ phase' = "mounted"
    /\ UNCHANGED <<oldChildren, newChildren, el, textContent, preVnode, newVnode, diff,
                   seqInput, seqResult, prevHost, draining>>

\* render(null, container): unmount of the component vnode, which is the
\* unmount of its subtree; the instance and its render effect are not
\* touched
UnmountChild ==
    /\ ~draining
    /\ phase = "mounted"
    /\ CommitReactive(Cur)
    /\ host' = Without(host, prevEl(0))
    /\ ops' = Append(ops, [op |-> "unmount", node |-> prevEl(0)])
    /\ phase' = "unmounted"
    /\ UNCHANGED <<oldChildren, newChildren, el, textContent, preVnode, newVnode, diff,
                   seqInput, seqResult, prevHost, draining>>

NextUnmount ==
    \/ MountChild
    \/ UnmountChild
    \/ \E v \in BoxVals : WriteRef(v)
    \/ RunFlushThen
    \/ RunFlushFinally

SpecUnmount == Init /\ [][NextUnmount]_vars

\* C30: once a component vnode is unmounted, no change of reactive state
\* that its render effect read runs its render function again, the call
\* whose result the render effect patches into the host tree.
C30_NoRenderAfterUnmount == phase = "unmounted" => hist.renders = 0

====
